---- MODULE Spec2Model ----
(***************************************************************************)
(* A model of runtara-object-store: the identifier sanitizer, the type     *)
(* system, the DDL generator, the condition compiler and the ObjectStore   *)
(* operations over a PostgreSQL database.                                  *)
(*                                                                         *)
(* Text is modelled as sequences of one-character strings, so that the     *)
(* sanitizer's regular expression, its keyword list and quote_identifier   *)
(* are computed on the characters.  SQL statements are sequences of        *)
(* tokens: the fixed text of the format strings, and the interpolated      *)
(* identifiers, literals and placeholders.                                 *)
(***************************************************************************)
EXTENDS Integers, Sequences, FiniteSets, TLC

\* ------------------------------------------------------------------------
\* Characters and strings
\* ------------------------------------------------------------------------

LowerChars == <<"a","b","c","d","e","f","g","h","i","j","k","l","m",
                "n","o","p","q","r","s","t","u","v","w","x","y","z">>

UpperChars == <<"A","B","C","D","E","F","G","H","I","J","K","L","M",
                "N","O","P","Q","R","S","T","U","V","W","X","Y","Z">>

DigitChars == <<"0","1","2","3","4","5","6","7","8","9">>

Range(f) == { f[i] : i \in DOMAIN f }

IsLower(c) == c \in Range(LowerChars)

IsUpper(c) == c \in Range(UpperChars)

IsDigit(c) == c \in Range(DigitChars)

\* char::is_alphanumeric is Unicode-aware: a non-ASCII letter passes it.
NonAsciiLetters == {"é"}

is_alphanumeric(c) == IsLower(c) \/ IsUpper(c) \/ IsDigit(c) \/ c \in NonAsciiLetters

to_uppercase_char(c) ==
    IF IsLower(c) THEN UpperChars[CHOOSE i \in DOMAIN LowerChars : LowerChars[i] = c] ELSE c

to_uppercase(s) == [i \in DOMAIN s |-> to_uppercase_char(s[i])]

to_lowercase_char(c) ==
    IF IsUpper(c) THEN LowerChars[CHOOSE i \in DOMAIN UpperChars : UpperChars[i] = c] ELSE c

to_lowercase(s) == [i \in DOMAIN s |-> to_lowercase_char(s[i])]

RECURSIVE Concat(_)
Concat(ss) == IF ss = <<>> THEN <<>> ELSE Head(ss) \o Concat(Tail(ss))

RECURSIVE Join(_, _)
Join(ss, sep) ==
    IF ss = <<>> THEN <<>>
    ELSE IF Len(ss) = 1 THEN Head(ss)
    ELSE Head(ss) \o sep \o Join(Tail(ss), sep)

\* ------------------------------------------------------------------------
\* sql/sanitize.rs
\* ------------------------------------------------------------------------

POSTGRES_RESERVED_WORDS ==
    {
      <<"A","L","L">>, <<"A","N","A","L","Y","S","E">>, <<"A","N","A","L","Y","Z","E">>,
      <<"A","N","D">>, <<"A","N","Y">>, <<"A","R","R","A","Y">>,
      <<"A","S">>, <<"A","S","C">>, <<"A","S","Y","M","M","E","T","R","I","C">>,
      <<"B","O","T","H">>, <<"C","A","S","E">>, <<"C","A","S","T">>,
      <<"C","H","E","C","K">>, <<"C","O","L","L","A","T","E">>, <<"C","O","L","U","M","N">>,
      <<"C","O","N","S","T","R","A","I","N","T">>, <<"C","R","E","A","T","E">>, <<"C","U","R","R","E","N","T","_","C","A","T","A","L","O","G">>,
      <<"C","U","R","R","E","N","T","_","D","A","T","E">>, <<"C","U","R","R","E","N","T","_","R","O","L","E">>, <<"C","U","R","R","E","N","T","_","T","I","M","E">>,
      <<"C","U","R","R","E","N","T","_","T","I","M","E","S","T","A","M","P">>, <<"C","U","R","R","E","N","T","_","U","S","E","R">>, <<"D","E","F","A","U","L","T">>,
      <<"D","E","F","E","R","R","A","B","L","E">>, <<"D","E","S","C">>, <<"D","I","S","T","I","N","C","T">>,
      <<"D","O">>, <<"E","L","S","E">>, <<"E","N","D">>,
      <<"E","X","C","E","P","T">>, <<"F","A","L","S","E">>, <<"F","E","T","C","H">>,
      <<"F","O","R">>, <<"F","O","R","E","I","G","N">>, <<"F","R","O","M">>,
      <<"G","R","A","N","T">>, <<"G","R","O","U","P">>, <<"H","A","V","I","N","G">>,
      <<"I","N">>, <<"I","N","I","T","I","A","L","L","Y">>, <<"I","N","T","E","R","S","E","C","T">>,
      <<"I","N","T","O">>, <<"L","A","T","E","R","A","L">>, <<"L","E","A","D","I","N","G">>,
      <<"L","I","M","I","T">>, <<"L","O","C","A","L","T","I","M","E">>, <<"L","O","C","A","L","T","I","M","E","S","T","A","M","P">>,
      <<"N","O","T">>, <<"N","U","L","L">>, <<"O","F","F","S","E","T">>,
      <<"O","N">>, <<"O","N","L","Y">>, <<"O","R">>,
      <<"O","R","D","E","R">>, <<"P","L","A","C","I","N","G">>, <<"P","R","I","M","A","R","Y">>,
      <<"R","E","F","E","R","E","N","C","E","S">>, <<"R","E","T","U","R","N","I","N","G">>, <<"S","E","L","E","C","T">>,
      <<"S","E","S","S","I","O","N","_","U","S","E","R">>, <<"S","O","M","E">>, <<"S","Y","M","M","E","T","R","I","C">>,
      <<"T","A","B","L","E">>, <<"T","H","E","N">>, <<"T","O">>,
      <<"T","R","A","I","L","I","N","G">>, <<"T","R","U","E">>, <<"U","N","I","O","N">>,
      <<"U","N","I","Q","U","E">>, <<"U","S","E","R">>, <<"U","S","I","N","G">>,
      <<"V","A","R","I","A","D","I","C">>, <<"W","H","E","N">>, <<"W","H","E","R","E">>,
      <<"W","I","N","D","O","W">>, <<"W","I","T","H">>
    }

DQ == "\""

\* identifier.replace('"', "\"\"")
RECURSIVE escape_quotes(_)
escape_quotes(s) ==
    IF s = <<>> THEN <<>>
    ELSE (IF Head(s) = DQ THEN <<DQ, DQ>> ELSE <<Head(s)>>) \o escape_quotes(Tail(s))

quote_identifier(identifier) == <<DQ>> \o escape_quotes(identifier) \o <<DQ>>

\* ^[a-z][a-z0-9_]*$
matches_identifier_regex(name) ==
    /\ Len(name) >= 1
    /\ IsLower(name[1])
    /\ \A i \in 2..Len(name) : IsLower(name[i]) \/ IsDigit(name[i]) \/ name[i] = "_"

\* Ok(()) is TRUE, Err(_) is FALSE
validate_identifier(name, reserved_columns) ==
    /\ name # <<>>
    /\ matches_identifier_regex(name)
    /\ to_uppercase(name) \notin POSTGRES_RESERVED_WORDS
    /\ name \notin reserved_columns

\* ------------------------------------------------------------------------
\* serde_json::Value
\*   t: "null" | "bool" | "int" | "str" | "arr" | "obj"
\*   n: the integer, or 1/0 for true/false;  c: the characters of a string;
\*   a: the elements of an array;  o: the members of an object, by key.
\* The integers of the model all lie within i64.
\* ------------------------------------------------------------------------

NoMembers == [k \in {} |-> 0]

JNull == [t |-> "null", n |-> 0, c |-> <<>>, a |-> <<>>, o |-> NoMembers]

JBool(b) == [t |-> "bool", n |-> IF b THEN 1 ELSE 0, c |-> <<>>, a |-> <<>>, o |-> NoMembers]

JInt(i) == [t |-> "int", n |-> i, c |-> <<>>, a |-> <<>>, o |-> NoMembers]

JStr(s) == [t |-> "str", n |-> 0, c |-> s, a |-> <<>>, o |-> NoMembers]

JArr(elems) == [t |-> "arr", n |-> 0, c |-> <<>>, a |-> elems, o |-> NoMembers]

JObj(members) == [t |-> "obj", n |-> 0, c |-> <<>>, a |-> <<>>, o |-> members]

is_null(v) == v.t = "null"

\* i64::to_string / u32::to_string
RECURSIVE NatDigits(_)
NatDigits(i) ==
    IF i < 10 THEN <<DigitChars[i + 1]>>
    ELSE NatDigits(i \div 10) \o <<DigitChars[(i % 10) + 1]>>

int_to_string(i) == IF i < 0 THEN <<"-">> \o NatDigits(-i) ELSE NatDigits(i)

AllDigits(s) == \A i \in DOMAIN s : IsDigit(s[i])

\* str::parse::<i64>: an optional sign and at least one digit (the strings of the
\* model are too short to overflow).
parse_i64_ok(s) ==
    LET body == IF s # <<>> /\ Head(s) \in {"+", "-"} THEN Tail(s) ELSE s
    IN  body # <<>> /\ AllDigits(body)

RECURSIVE DigitsValue(_)
DigitsValue(s) ==
    IF s = <<>> THEN 0
    ELSE 10 * DigitsValue(SubSeq(s, 1, Len(s) - 1))
         + (CHOOSE d \in 0..9 : DigitChars[d + 1] = s[Len(s)])

parse_i64(s) ==
    IF Head(s) = "-" THEN 0 - DigitsValue(Tail(s))
    ELSE IF Head(s) = "+" THEN DigitsValue(Tail(s))
    ELSE DigitsValue(s)

IndexOf(s, ch) == IF \E i \in DOMAIN s : s[i] = ch
                  THEN CHOOSE i \in DOMAIN s : s[i] = ch /\ \A j \in 1..(i - 1) : s[j] # ch
                  ELSE 0

\* str::parse::<f64>: sign? (digits [. digits*] | . digits+) [e sign? digits+],
\* or inf / infinity / nan in any case.
f64_mantissa_ok(m) ==
    LET dot == IndexOf(m, ".")
        ip  == IF dot = 0 THEN m ELSE SubSeq(m, 1, dot - 1)
        fp  == IF dot = 0 THEN <<>> ELSE SubSeq(m, dot + 1, Len(m))
    IN  /\ AllDigits(ip) /\ AllDigits(fp)
        /\ Len(ip) + Len(fp) >= 1

parse_f64_ok(s) ==
    LET body == IF s # <<>> /\ Head(s) \in {"+", "-"} THEN Tail(s) ELSE s
        low  == to_lowercase(body)
        e    == IndexOf(low, "e")
        mant == IF e = 0 THEN low ELSE SubSeq(low, 1, e - 1)
        ex   == IF e = 0 THEN <<>> ELSE SubSeq(low, e + 1, Len(low))
        exb  == IF ex # <<>> /\ Head(ex) \in {"+", "-"} THEN Tail(ex) ELSE ex
    IN  \/ low \in { <<"i","n","f">>, <<"i","n","f","i","n","i","t","y">>, <<"n","a","n">> }
        \/ /\ f64_mantissa_ok(mant)
           /\ e # 0 => (exb # <<>> /\ AllDigits(exb))

\* chrono::DateTime::parse_from_rfc3339: yyyy-mm-ddThh:mm:ss, an optional
\* fraction, and Z or a numeric offset.
TwoDigits(s, i, max) ==
    /\ IsDigit(s[i]) /\ IsDigit(s[i + 1])
    /\ DigitsValue(SubSeq(s, i, i + 1)) <= max

rfc3339_zone_ok(z) ==
    \/ z \in { <<"Z">>, <<"z">> }
    \/ /\ Len(z) = 6
       /\ z[1] \in {"+", "-"} /\ z[4] = ":"
       /\ TwoDigits(z, 2, 23) /\ TwoDigits(z, 5, 59)

rfc3339_rest_ok(r) ==
    IF r # <<>> /\ Head(r) = "."
    THEN \E k \in 2..Len(r) :
             /\ \A i \in 2..k : IsDigit(r[i])
             /\ rfc3339_zone_ok(SubSeq(r, k + 1, Len(r)))
    ELSE rfc3339_zone_ok(r)

parse_from_rfc3339_ok(s) ==
    /\ Len(s) >= 20
    /\ \A i \in 1..4 : IsDigit(s[i])
    /\ s[5] = "-" /\ s[8] = "-" /\ s[11] \in {"T", "t"} /\ s[14] = ":" /\ s[17] = ":"
    /\ TwoDigits(s, 6, 12) /\ DigitsValue(SubSeq(s, 6, 7)) >= 1
    /\ TwoDigits(s, 9, 31) /\ DigitsValue(SubSeq(s, 9, 10)) >= 1
    /\ TwoDigits(s, 12, 23) /\ TwoDigits(s, 15, 59) /\ TwoDigits(s, 18, 60)
    /\ rfc3339_zone_ok(SubSeq(s, 20, Len(s))) \/ rfc3339_rest_ok(SubSeq(s, 20, Len(s)))

BoolTrueWords == { <<"t","r","u","e">>, <<"1">>, <<"y","e","s">> }

BoolFalseWords == { <<"f","a","l","s","e">>, <<"0">>, <<"n","o">> }

\* ------------------------------------------------------------------------
\* types.rs
\*   ColumnType: kind "String" | "Integer" | "Decimal" | "Boolean" |
\*   "Timestamp" | "Json" | "Enum", with precision/scale (Decimal) and
\*   values (Enum).  Timestamp values are outside the inputs of the model.
\* ------------------------------------------------------------------------

CT(kind) == [kind |-> kind, precision |-> 0, scale |-> 0, values |-> <<>>]

CT_decimal(precision, scale) ==
    [kind |-> "Decimal", precision |-> precision, scale |-> scale, values |-> <<>>]

CT_enum(values) == [kind |-> "Enum", precision |-> 0, scale |-> 0, values |-> values]

\* ColumnDefinition::new(name, type) with nullable = true, unique = false, no default
ColumnDefinition_new(name, column_type) ==
    [name |-> name, column_type |-> column_type, nullable |-> TRUE, unique |-> FALSE,
     has_default |-> FALSE, default_value |-> <<>>]

not_null(col) == [col EXCEPT !.nullable = FALSE]

with_unique(col) == [col EXCEPT !.unique = TRUE]

with_default(col, value) == [col EXCEPT !.has_default = TRUE, !.default_value = value]

\* Ok(()) is TRUE, Err(_) is FALSE
validate_value(ct, value) ==
    IF is_null(value) THEN TRUE
    ELSE CASE ct.kind = "String"  /\ value.t = "str" -> TRUE
           [] ct.kind = "Integer" /\ value.t = "int" -> TRUE
           [] ct.kind = "Integer" /\ value.t = "str" -> parse_i64_ok(value.c)
           [] ct.kind = "Decimal" /\ value.t = "int" -> TRUE
           [] ct.kind = "Decimal" /\ value.t = "str" -> parse_f64_ok(value.c)
           [] ct.kind = "Boolean" /\ value.t = "bool" -> TRUE
           [] ct.kind = "Boolean" /\ value.t = "str" ->
                  to_lowercase(value.c) \in BoolTrueWords \cup BoolFalseWords
           [] ct.kind = "Timestamp" /\ value.t = "str" -> parse_from_rfc3339_ok(value.c)
           [] ct.kind = "Json" -> TRUE
           [] ct.kind = "Enum" /\ value.t = "str" -> value.c \in Range(ct.values)
           [] OTHER -> FALSE

\* ------------------------------------------------------------------------
\* SQL text: a sequence of tokens
\*   "sql"   fixed text of a format string (s)
\*   "ident" an interpolated identifier: c is the text emitted, src the
\*           identifier the caller supplied
\*   "lit"   other interpolated text (c)
\*   "ph"    the placeholder $n
\* ------------------------------------------------------------------------

T(s) == [k |-> "sql", s |-> s, c |-> <<>>, n |-> 0, src |-> <<>>]

TIdent(emitted, source) == [k |-> "ident", s |-> "", c |-> emitted, n |-> 0, src |-> source]

TLit(chars) == [k |-> "lit", s |-> "", c |-> chars, n |-> 0, src |-> <<>>]

TPh(n) == [k |-> "ph", s |-> "", c |-> <<>>, n |-> n, src |-> <<>>]

\* ------------------------------------------------------------------------
\* instance.rs: Condition { op, arguments: Option<Vec<Value>> }
\* ------------------------------------------------------------------------

K_op == <<"o","p">>

K_arguments == <<"a","r","g","u","m","e","n","t","s">>

Condition(op, arguments) == [op |-> op, has_arguments |-> TRUE, arguments |-> arguments]

Condition_no_arguments(op) == [op |-> op, has_arguments |-> FALSE, arguments |-> <<>>]

\* serde_json::to_value(condition): arguments is skipped when None
condition_to_value(cond) ==
    IF cond.has_arguments
    THEN JObj([k \in {K_op, K_arguments} |->
                  IF k = K_op THEN JStr(cond.op) ELSE JArr(cond.arguments)])
    ELSE JObj([k \in {K_op} |-> JStr(cond.op)])

\* Option<Vec<Value>> from a JSON value
arguments_from_ok(v) == v.t \in {"null", "arr"}

\* serde_json::from_value::<Condition>: a derived struct is read from an object
\* (unknown members ignored, a missing Option member is None) or from an array
\* of exactly its fields in order.
from_value_ok(v) ==
    CASE v.t = "obj" ->
             /\ K_op \in DOMAIN v.o
             /\ v.o[K_op].t = "str"
             /\ K_arguments \in DOMAIN v.o => arguments_from_ok(v.o[K_arguments])
      [] v.t = "arr" ->
             /\ Len(v.a) = 2
             /\ v.a[1].t = "str"
             /\ arguments_from_ok(v.a[2])
      [] OTHER -> FALSE

from_value(v) ==
    LET opv  == IF v.t = "obj" THEN v.o[K_op] ELSE v.a[1]
        argv == IF v.t = "obj"
                THEN (IF K_arguments \in DOMAIN v.o THEN v.o[K_arguments] ELSE JNull)
                ELSE v.a[2]
    IN  IF argv.t = "arr" THEN Condition(opv.c, argv.a) ELSE Condition_no_arguments(opv.c)

\* ------------------------------------------------------------------------
\* sql/condition.rs
\* ------------------------------------------------------------------------

\* serde_json::Value::to_string for the values the model compares against
\* (objects are not among them)
RECURSIVE json_to_string(_)
json_to_string(v) ==
    CASE v.t = "null" -> <<"n","u","l","l">>
      [] v.t = "bool" -> IF v.n = 1 THEN <<"t","r","u","e">> ELSE <<"f","a","l","s","e">>
      [] v.t = "int"  -> int_to_string(v.n)
      [] v.t = "str"  -> <<DQ>> \o Concat([i \in DOMAIN v.c |->
                             IF v.c[i] \in {DQ, "\\"} THEN <<"\\", v.c[i]>> ELSE <<v.c[i]>>])
                         \o <<DQ>>
      [] v.t = "arr"  -> <<"[">> \o Join([i \in DOMAIN v.a |-> json_to_string(v.a[i])], <<",">>)
                         \o <<"]">>

\* field.chars().all(|c| c.is_alphanumeric() || c == '_' || c == '-')
field_name_ok(field) ==
    \A i \in DOMAIN field : is_alphanumeric(field[i]) \/ field[i] = "_" \/ field[i] = "-"

OP_AND == <<"A","N","D">>

OP_OR == <<"O","R">>

OP_NOT == <<"N","O","T">>

OP_EQ == <<"E","Q">>

OP_NE == <<"N","E">>

OP_GT == <<"G","T">>

OP_LT == <<"L","T">>

OP_GTE == <<"G","T","E">>

OP_LTE == <<"L","T","E">>

OP_CONTAINS == <<"C","O","N","T","A","I","N","S">>

OP_IN == <<"I","N">>

OP_NOT_IN == <<"N","O","T","_","I","N">>

OP_IS_EMPTY == <<"I","S","_","E","M","P","T","Y">>

OP_IS_NOT_EMPTY == <<"I","S","_","N","O","T","_","E","M","P","T","Y">>

OP_IS_DEFINED == <<"I","S","_","D","E","F","I","N","E","D">>

ComparisonOps == {OP_EQ, OP_NE, OP_GT, OP_LT, OP_GTE, OP_LTE}

comparison_operator(op) ==
    CASE op = OP_EQ -> "=" [] op = OP_NE -> "!=" [] op = OP_GT -> ">"
      [] op = OP_LT -> "<" [] op = OP_GTE -> ">=" [] op = OP_LTE -> "<="

\* The result of build_condition_clause: Ok((clause, params)) or Err(err),
\* with offset the value *param_offset holds when the call returns.
CcOk(clause, params, offset) ==
    [ok |-> TRUE, clause |-> clause, params |-> params, offset |-> offset, err |-> ""]

CcErr(err, offset) ==
    [ok |-> FALSE, clause |-> <<>>, params |-> <<>>, offset |-> offset, err |-> err]

\* The offset left where it was after a parameter has been bound.
next_param_offset_stuck(param_offset) == param_offset

\* *param_offset += 1
next_param_offset(param_offset) == param_offset + 1

\* A null_operator that answers every comparison but EQ with IS NOT NULL.
null_operator_lenient(op) == IF op = OP_EQ THEN <<"IS NULL">> ELSE <<"IS NOT NULL">>

\* let null_operator = match op: the operator of a comparison against NULL,
\* none for the comparisons that have no NULL form
null_operator(op) ==
    IF op = OP_EQ THEN <<"IS NULL">>
    ELSE IF op = OP_NE THEN <<"IS NOT NULL">>
    ELSE <<>>

\* format!("\"{}\"", field)
quoted_field(field) == TIdent(<<DQ>> \o field \o <<DQ>>, field)

RECURSIVE build_condition_clause(_, _)
RECURSIVE build_logical_args(_, _, _, _, _)

\* The loop over the arguments of AND / OR: an argument that is no Condition is
\* skipped, an error of a sub-condition is returned at once.
build_logical_args(args, i, offset, clauses, params) ==
    IF i > Len(args) THEN [ok |-> TRUE, clauses |-> clauses, params |-> params,
                           offset |-> offset, err |-> ""]
    ELSE IF from_value_ok(args[i])
    THEN LET sub == build_condition_clause(from_value(args[i]), offset)
         IN  IF sub.ok
             THEN build_logical_args(args, i + 1, sub.offset,
                      Append(clauses, <<T("(")>> \o sub.clause \o <<T(")")>>),
                      params \o sub.params)
             ELSE [ok |-> FALSE, clauses |-> <<>>, params |-> <<>>,
                   offset |-> sub.offset, err |-> sub.err]
    ELSE build_logical_args(args, i + 1, offset, clauses, params)

build_condition_clause(condition, param_offset) ==
    LET op   == to_uppercase(condition.op)
        args == condition.arguments
        has  == condition.has_arguments
    IN  CASE op \in {OP_AND, OP_OR} ->
                 IF ~has THEN CcErr("operation requires arguments", param_offset)
                 ELSE LET r == build_logical_args(args, 1, param_offset, <<>>, <<>>)
                      IN  IF ~r.ok THEN CcErr(r.err, r.offset)
                          ELSE IF r.clauses = <<>>
                          THEN CcErr("operation requires at least one condition", r.offset)
                          ELSE CcOk(Join(r.clauses,
                                         <<T(IF op = OP_AND THEN " AND " ELSE " OR ")>>),
                                    r.params, r.offset)
          [] op = OP_NOT ->
                 IF ~has THEN CcErr("NOT operation requires an argument", param_offset)
                 ELSE IF Len(args) # 1
                 THEN CcErr("NOT operation requires exactly one argument", param_offset)
                 ELSE IF from_value_ok(args[1])
                 THEN LET sub == build_condition_clause(from_value(args[1]), param_offset)
                      IN  IF sub.ok
                          THEN CcOk(<<T("NOT (")>> \o sub.clause \o <<T(")")>>,
                                    sub.params, sub.offset)
                          ELSE CcErr(sub.err, sub.offset)
                 ELSE CcErr("NOT operation requires a Condition argument", param_offset)
          [] op \in ComparisonOps ->
                 IF ~has THEN CcErr("operation requires arguments", param_offset)
                 ELSE IF Len(args) # 2
                 THEN CcErr("operation requires exactly 2 arguments", param_offset)
                 ELSE IF args[1].t # "str"
                 THEN CcErr("First argument must be a field name", param_offset)
                 ELSE IF ~field_name_ok(args[1].c)
                 THEN CcErr("Field name contains invalid characters", param_offset)
                 ELSE IF is_null(args[2])
                 THEN (IF null_operator(op) # <<>>
                       THEN CcOk(<<quoted_field(args[1].c), T(" "), T(null_operator(op)[1])>>,
                                 <<>>, param_offset)
                       ELSE CcErr("operation with NULL value is not supported",
                                  param_offset))
                 ELSE LET value_str == IF args[2].t = "str" THEN args[2].c
                                       ELSE json_to_string(args[2])
                      IN  CcOk(<<quoted_field(args[1].c), T("::text "),
                                 T(comparison_operator(op)), T(" "), TPh(param_offset),
                                 T("::text")>>,
                               <<JStr(value_str)>>, next_param_offset(param_offset))
          [] op = OP_CONTAINS ->
                 IF ~has THEN CcErr("CONTAINS operation requires arguments", param_offset)
                 ELSE IF Len(args) # 2
                 THEN CcErr("CONTAINS operation requires exactly 2 arguments", param_offset)
                 ELSE IF args[1].t # "str"
                 THEN CcErr("First argument must be a field name", param_offset)
                 ELSE IF args[2].t # "str"
                 THEN CcErr("Second argument must be a string", param_offset)
                 ELSE IF ~field_name_ok(args[1].c)
                 THEN CcErr("Field name contains invalid characters", param_offset)
                 ELSE CcOk(<<quoted_field(args[1].c), T("::text LIKE "), TPh(param_offset),
                             T("::text")>>,
                           <<JStr(<<"%">> \o args[2].c \o <<"%">>)>>, next_param_offset(param_offset))
          [] op \in {OP_IN, OP_NOT_IN} ->
                 IF ~has THEN CcErr("operation requires arguments", param_offset)
                 ELSE IF Len(args) # 2
                 THEN CcErr("operation requires exactly 2 arguments", param_offset)
                 ELSE IF args[1].t # "str"
                 THEN CcErr("First argument must be a field name", param_offset)
                 ELSE IF args[2].t # "arr"
                 THEN CcErr("Second argument must be an array", param_offset)
                 ELSE IF ~field_name_ok(args[1].c)
                 THEN CcErr("Field name contains invalid characters", param_offset)
                 ELSE IF op = OP_IN
                 THEN CcOk(<<quoted_field(args[1].c),
                             T("::text = ANY(SELECT jsonb_array_elements_text("),
                             TPh(param_offset), T("::jsonb))")>>,
                           <<JArr(args[2].a)>>, next_param_offset(param_offset))
                 ELSE CcOk(<<T("NOT ("), quoted_field(args[1].c),
                             T("::text = ANY(SELECT jsonb_array_elements_text("),
                             TPh(param_offset), T("::jsonb)))")>>,
                           <<JArr(args[2].a)>>, next_param_offset(param_offset))
          [] op \in {OP_IS_EMPTY, OP_IS_NOT_EMPTY, OP_IS_DEFINED} ->
                 IF ~has THEN CcErr("operation requires an argument", param_offset)
                 ELSE IF Len(args) # 1
                 THEN CcErr("operation requires exactly 1 argument", param_offset)
                 ELSE IF args[1].t # "str"
                 THEN CcErr("Argument must be a field name", param_offset)
                 ELSE IF ~field_name_ok(args[1].c)
                 THEN CcErr("Field name contains invalid characters", param_offset)
                 ELSE IF op = OP_IS_EMPTY
                 THEN CcOk(<<T("("), quoted_field(args[1].c), T(" IS NULL OR "),
                             quoted_field(args[1].c), T("::text = '')")>>,
                           <<>>, param_offset)
                 ELSE IF op = OP_IS_NOT_EMPTY
                 THEN CcOk(<<T("("), quoted_field(args[1].c), T(" IS NOT NULL AND "),
                             quoted_field(args[1].c), T("::text != '')")>>,
                           <<>>, param_offset)
                 ELSE CcOk(<<quoted_field(args[1].c), T(" IS NOT NULL")>>,
                           <<>>, param_offset)
          [] OTHER -> CcErr("Unsupported operation", param_offset)

\* ------------------------------------------------------------------------
\* config.rs: StoreConfig { soft_delete, auto_columns { id, created_at, updated_at } }
\* ------------------------------------------------------------------------

StoreConfig(soft_delete, id, created_at, updated_at) ==
    [soft_delete |-> soft_delete,
     auto_columns |-> [id |-> id, created_at |-> created_at, updated_at |-> updated_at]]

\* StoreConfigBuilder::new(..).build()
DefaultConfig == StoreConfig(TRUE, TRUE, TRUE, TRUE)

N_id == <<"i","d">>

N_created_at == <<"c","r","e","a","t","e","d","_","a","t">>

N_updated_at == <<"u","p","d","a","t","e","d","_","a","t">>

N_deleted == <<"d","e","l","e","t","e","d">>

\* ------------------------------------------------------------------------
\* types.rs: ColumnType::to_sql_type
\* ------------------------------------------------------------------------

SQ == "'"

\* format!("'{}'", v.replace("'", "''"))
enum_literal(v) ==
    TLit(<<SQ>> \o Concat([i \in DOMAIN v |-> IF v[i] = SQ THEN <<SQ, SQ>> ELSE <<v[i]>>])
         \o <<SQ>>)

\* The column name as the CHECK constraint of an Enum column spells it.
check_column_name(column_name) == TIdent(column_name, column_name)

to_sql_type(ct, column_name) ==
    CASE ct.kind = "String"    -> <<T("TEXT")>>
      [] ct.kind = "Integer"   -> <<T("BIGINT")>>
      [] ct.kind = "Decimal"   -> <<T("NUMERIC("), TLit(int_to_string(ct.precision)), T(","),
                                    TLit(int_to_string(ct.scale)), T(")")>>
      [] ct.kind = "Boolean"   -> <<T("BOOLEAN")>>
      [] ct.kind = "Timestamp" -> <<T("TIMESTAMP WITH TIME ZONE")>>
      [] ct.kind = "Json"      -> <<T("JSONB")>>
      [] ct.kind = "Enum"      ->
             <<T("TEXT CHECK ("), check_column_name(column_name), T(" IN (")>>
             \o Join([i \in DOMAIN ct.values |-> <<enum_literal(ct.values[i])>>], <<T(", ")>>)
             \o <<T("))")>>

\* ------------------------------------------------------------------------
\* sql/ddl.rs: DdlGenerator
\* ------------------------------------------------------------------------

quoted(identifier) == TIdent(quote_identifier(identifier), identifier)

format_column_definition(col) ==
    Join(<< <<quoted(col.name)>>, to_sql_type(col.column_type, col.name) >>
         \o (IF col.unique THEN << <<T("UNIQUE")>> >> ELSE <<>>)
         \o (IF ~col.nullable THEN << <<T("NOT NULL")>> >> ELSE <<>>)
         \o (IF col.has_default THEN << <<T("DEFAULT "), TLit(col.default_value)>> >> ELSE <<>>),
         <<T(" ")>>)

\* The column_defs vector of generate_create_table: for each column the name
\* PostgreSQL reads, whether the store manages it, and the text of its definition.
ColumnDef(name, auto, def, text) == [name |-> name, auto |-> auto, def |-> def, text |-> text]

AutoDef(name, ct, nullable, unique, default_value) ==
    [name |-> name, column_type |-> ct, nullable |-> nullable, unique |-> unique,
     has_default |-> TRUE, default_value |-> default_value]

SqlNow == <<"N","O","W","(",")">>

SqlFalse == <<"F","A","L","S","E">>

SqlGenUuid == <<"g","e","n","_","r","a","n","d","o","m","_","u","u","i","d","(",")",":",":","t","e","x","t">>

create_table_column_defs(config, columns) ==
    (IF config.auto_columns.id
     THEN <<ColumnDef(N_id, TRUE, AutoDef(N_id, CT("String"), FALSE, TRUE, SqlGenUuid),
                      <<T("id VARCHAR(255) PRIMARY KEY DEFAULT gen_random_uuid()::text")>>)>>
     ELSE <<>>)
    \o [i \in DOMAIN columns |->
           ColumnDef(columns[i].name, FALSE, columns[i], format_column_definition(columns[i]))]
    \o (IF config.auto_columns.created_at
        THEN <<ColumnDef(N_created_at, TRUE,
                         AutoDef(N_created_at, CT("Timestamp"), TRUE, FALSE, SqlNow),
                         <<T("created_at TIMESTAMPTZ DEFAULT NOW()")>>)>>
        ELSE <<>>)
    \o (IF config.auto_columns.updated_at
        THEN <<ColumnDef(N_updated_at, TRUE,
                         AutoDef(N_updated_at, CT("Timestamp"), TRUE, FALSE, SqlNow),
                         <<T("updated_at TIMESTAMPTZ DEFAULT NOW()")>>)>>
        ELSE <<>>)
    \o (IF config.soft_delete
        THEN <<ColumnDef(N_deleted, TRUE,
                         AutoDef(N_deleted, CT("Boolean"), TRUE, FALSE, SqlFalse),
                         <<T("deleted BOOLEAN DEFAULT FALSE")>>)>>
        ELSE <<>>)

generate_create_table(config, table_name, columns) ==
    LET defs == create_table_column_defs(config, columns)
    IN  <<T("CREATE TABLE "), quoted(table_name), T(" (")>>
        \o Join([i \in DOMAIN defs |-> defs[i].text], <<T(", ")>>)
        \o <<T(")")>>

HasColumn(columns, name) == \E i \in DOMAIN columns : columns[i].name = name

\* old_columns.iter().find(|c| c.name == name)
FindColumn(columns, name) ==
    columns[CHOOSE i \in DOMAIN columns :
                columns[i].name = name /\ \A j \in 1..(i - 1) : columns[j].name # name]

\* One statement of generate_alter_table: what it does to which column, and its text.
AlterStmt(kind, col, text) == [kind |-> kind, col |-> col, text |-> text]

alter_added(table_name, old_columns, new_columns) ==
    LET added == SelectSeq(new_columns, LAMBDA c : ~HasColumn(old_columns, c.name))
    IN  [i \in DOMAIN added |->
            AlterStmt("ADD", added[i],
                <<T("ALTER TABLE "), quoted(table_name), T(" ADD COLUMN ")>>
                \o format_column_definition(added[i]))]

alter_dropped(table_name, old_columns, new_columns) ==
    LET dropped == SelectSeq(old_columns, LAMBDA c : ~HasColumn(new_columns, c.name))
    IN  [i \in DOMAIN dropped |->
            AlterStmt("DROP", dropped[i],
                <<T("ALTER TABLE "), quoted(table_name), T(" DROP COLUMN "),
                  quoted(dropped[i].name)>>)]

\* The statements for one column, with its default set again whenever it has one
alter_modified_column_sets_default(table_name, old_col, new_col) ==
    IF new_col.has_default
    THEN <<AlterStmt("SET DEFAULT", new_col,
               <<T("ALTER TABLE "), quoted(table_name), T(" ALTER COLUMN "),
                 quoted(new_col.name), T(" "), T("SET DEFAULT "),
                 TLit(new_col.default_value)>>)>>
    ELSE <<>>

alter_modified_column(table_name, old_col, new_col) ==
    LET head == <<T("ALTER TABLE "), quoted(table_name), T(" ALTER COLUMN "),
                  quoted(new_col.name), T(" ")>>
    IN  (IF old_col.column_type # new_col.column_type
         THEN <<AlterStmt("TYPE", new_col,
                    head \o <<T("TYPE ")>> \o to_sql_type(new_col.column_type, new_col.name))>>
         ELSE <<>>)
        \o (IF old_col.nullable # new_col.nullable
            THEN <<AlterStmt(IF new_col.nullable THEN "DROP NOT NULL" ELSE "SET NOT NULL",
                       new_col,
                       head \o <<T(IF new_col.nullable THEN "DROP NOT NULL"
                                   ELSE "SET NOT NULL")>>)>>
            ELSE <<>>)
        \o (IF old_col.has_default # new_col.has_default
               \/ old_col.default_value # new_col.default_value
            THEN (IF new_col.has_default
                  THEN <<AlterStmt("SET DEFAULT", new_col,
                             head \o <<T("SET DEFAULT "), TLit(new_col.default_value)>>)>>
                  ELSE <<AlterStmt("DROP DEFAULT", new_col, head \o <<T("DROP DEFAULT")>>)>>)
            ELSE <<>>)

alter_modified(table_name, old_columns, new_columns) ==
    Concat([i \in DOMAIN new_columns |->
               IF HasColumn(old_columns, new_columns[i].name)
               THEN alter_modified_column(table_name,
                        FindColumn(old_columns, new_columns[i].name), new_columns[i])
               ELSE <<>>])

\* The diff with the dropped columns ahead of the added ones
generate_alter_table_drops_first(table_name, old_columns, new_columns) ==
    alter_dropped(table_name, old_columns, new_columns)
    \o alter_added(table_name, old_columns, new_columns)
    \o alter_modified(table_name, old_columns, new_columns)

generate_alter_table(table_name, old_columns, new_columns) ==
    alter_added(table_name, old_columns, new_columns)
    \o alter_dropped(table_name, old_columns, new_columns)
    \o alter_modified(table_name, old_columns, new_columns)

generate_drop_table(table_name) ==
    <<T("DROP TABLE IF EXISTS "), quoted(table_name), T(" CASCADE")>>

\* IndexDefinition { name, columns, unique }
IndexDefinition(name, columns, unique) == [name |-> name, columns |-> columns, unique |-> unique]

generate_create_index(table_name, index) ==
    <<T("CREATE "), T(IF index.unique THEN "UNIQUE " ELSE ""), T("INDEX "),
      TIdent(quote_identifier(table_name \o <<"_">> \o index.name),
             table_name \o <<"_">> \o index.name),
      T(" ON "), quoted(table_name), T("(")>>
    \o Join([i \in DOMAIN index.columns |-> <<quoted(index.columns[i])>>], <<T(", ")>>)
    \o <<T(")")>>

generate_default_index(config, table_name) ==
    LET index_name == <<"i","d","x","_">> \o table_name \o <<"_","d","e","f","a","u","l","t">>
    IN  <<T("CREATE INDEX "), TIdent(quote_identifier(index_name), index_name), T(" ON "),
          quoted(table_name),
          T(IF config.soft_delete THEN "(created_at DESC) WHERE deleted = FALSE"
            ELSE "(created_at DESC)")>>

\* ------------------------------------------------------------------------
\* State
\*   config : the store's configuration
\*   meta   : the rows of the metadata table
\*   tables : the data tables, by name
\*   clock  : the source of fresh UUIDs and of NOW()
\*   res    : the last call and what it returned
\*   pin, pout : the input and the result of one call of a pure function
\*   calls  : the create_schema calls in flight, each at one of its await points
\* ------------------------------------------------------------------------

VARIABLES config, meta, tables, clock, res, pin, pout, calls

vars == <<config, meta, tables, clock, res, pin, pout, calls>>

storeVars == <<config, meta, tables, clock, res, calls>>

pureVars == <<pin, pout>>

NoResult == [op |-> "none"]

NotRun == [fn |-> "none"]

NoCalls == <<>>

StoreInit(cfg) ==
    /\ config = cfg
    /\ meta = {}
    /\ tables = NoMembers
    /\ clock = 1
    /\ res = NoResult
    /\ calls = NoCalls

\* ------------------------------------------------------------------------
\* The pure compilers applied to bounded inputs
\* ------------------------------------------------------------------------

MaxOffset == 2

F_a == <<"a">>

F_hyphen == <<"a","-","b">>

F_semicolon == <<"a",";">>

V_x == JStr(<<"x">>)

V_arr == JArr(<<JStr(<<"x">>), JInt(1)>>)

LeafConditions ==
    { Condition(OP_EQ, <<JStr(F_a), V_x>>),
      Condition(OP_EQ, <<JStr(F_a), JInt(100)>>),
      Condition(<<"e","q">>, <<JStr(F_hyphen), JBool(TRUE)>>),
      Condition(OP_EQ, <<JStr(F_a), JNull>>),
      Condition(OP_NE, <<JStr(F_a), JNull>>),
      Condition(OP_GT, <<JStr(F_a), JNull>>),
      Condition(OP_GT, <<JStr(F_a), JInt(100)>>),
      Condition(OP_LTE, <<JStr(F_a), V_arr>>),
      Condition(OP_EQ, <<JStr(F_semicolon), V_x>>),
      Condition(OP_EQ, <<JInt(1), V_x>>),
      Condition(OP_EQ, <<JStr(F_a)>>),
      Condition_no_arguments(OP_EQ),
      Condition(OP_CONTAINS, <<JStr(F_a), V_x>>),
      Condition(OP_CONTAINS, <<JStr(F_a), JInt(1)>>),
      Condition(OP_IN, <<JStr(F_a), V_arr>>),
      Condition(OP_IN, <<JStr(F_a), V_x>>),
      Condition(OP_NOT_IN, <<JStr(F_a), V_arr>>),
      Condition(OP_IS_EMPTY, <<JStr(F_a)>>),
      Condition(OP_IS_NOT_EMPTY, <<JStr(F_a)>>),
      Condition(OP_IS_DEFINED, <<JStr(F_a)>>),
      Condition(OP_IS_DEFINED, <<JStr(F_a), V_x>>),
      Condition(<<"S","T","A","R","T","S","_","W","I","T","H">>, <<JStr(F_a), V_x>>) }

\* Values that are no Condition, and a Condition spelled as an array.
OtherArguments ==
    { V_x, JInt(1), JNull, JArr(<<JStr(OP_EQ), JArr(<<JStr(F_a), V_x>>)>>) }

LeafArguments == { condition_to_value(c) : c \in LeafConditions } \cup OtherArguments

ArgLists(S) == { <<x>> : x \in S } \cup { <<x, y>> : x \in S, y \in S }

LogicalOver(S) ==
    { Condition(op, args) : op \in {OP_AND, OP_OR}, args \in ArgLists(S) \cup {<<>>} }
    \cup { Condition(OP_NOT, args) : args \in ArgLists(S) }
    \cup { Condition_no_arguments(op) : op \in {OP_AND, OP_OR, OP_NOT} }

SmallArguments ==
    { condition_to_value(Condition(OP_EQ, <<JStr(F_a), V_x>>)),
      condition_to_value(Condition(OP_IS_EMPTY, <<JStr(F_a)>>)),
      condition_to_value(Condition(OP_GT, <<JStr(F_a), JNull>>)),
      V_x }

NestedArguments ==
    SmallArguments \cup { condition_to_value(c) : c \in LogicalOver(SmallArguments) }

ConditionInputs ==
    LeafConditions \cup LogicalOver(LeafArguments) \cup LogicalOver(NestedArguments)

MaxColumns == 2

N_t == <<"t">>

N_t_quote == <<"t", DQ>>

N_a == <<"a">>

N_b == <<"b">>

N_e == <<"e">>

Col_a == ColumnDefinition_new(N_a, CT("String"))

Col_a_int == not_null(ColumnDefinition_new(N_a, CT("Integer")))

Col_b == with_default(ColumnDefinition_new(N_b, CT("Boolean")), <<"T","R","U","E">>)

Col_b_dec == with_unique(ColumnDefinition_new(N_b, CT_decimal(10, 2)))

Col_e == ColumnDefinition_new(N_e, CT_enum(<<N_a, <<"b", SQ>> >>))

Col_ts == not_null(ColumnDefinition_new(<<"x", DQ>>, CT("Timestamp")))

Col_json == ColumnDefinition_new(<<"j"," ","s">>, CT("Json"))

RECURSIVE SeqsUpTo(_, _)
SeqsUpTo(S, n) ==
    IF n = 0 THEN {<<>>}
    ELSE LET shorter == SeqsUpTo(S, n - 1)
         IN  shorter \cup { Append(s, x) : s \in shorter, x \in S }

Configs ==
    { StoreConfig(sd, id, ca, ua) :
          sd \in BOOLEAN, id \in BOOLEAN, ca \in BOOLEAN, ua \in BOOLEAN }

DdlColumnLists ==
    SeqsUpTo({Col_a, Col_a_int, Col_b, Col_b_dec, Col_e, Col_ts, Col_json}, MaxColumns)

AlterColumnLists == SeqsUpTo({Col_a, Col_a_int, Col_b, Col_e}, MaxColumns)

IndexInputs ==
    { IndexDefinition(<<"i","x">>, <<N_a>>, FALSE),
      IndexDefinition(<<"i", DQ>>, <<N_a, <<"x", DQ>> >>, TRUE) }

ConditionCalls ==
    { [fn |-> "build_condition_clause", condition |-> c, param_offset |-> k] :
          c \in ConditionInputs, k \in 1..MaxOffset }

CreateTableCalls ==
    { [fn |-> "generate_create_table", config |-> cfg, table_name |-> tn, columns |-> cols] :
          cfg \in Configs, tn \in {N_t, N_t_quote}, cols \in DdlColumnLists }

AlterTableCalls ==
    { [fn |-> "generate_alter_table", table_name |-> N_t_quote, old_columns |-> o, new_columns |-> n] :
          o \in AlterColumnLists, n \in AlterColumnLists }

IndexCalls ==
    { [fn |-> "generate_create_index", table_name |-> tn, index |-> ix] :
          tn \in {N_t, N_t_quote}, ix \in IndexInputs }
    \cup { [fn |-> "generate_default_index", config |-> cfg, table_name |-> tn] :
          cfg \in Configs, tn \in {N_t, N_t_quote} }
    \cup { [fn |-> "generate_drop_table", table_name |-> tn] : tn \in {N_t, N_t_quote} }

PureInputs == ConditionCalls \cup CreateTableCalls \cup AlterTableCalls \cup IndexCalls

PureInit ==
    /\ StoreInit(DefaultConfig)
    /\ pin \in PureInputs
    /\ pout = NotRun

ApplyBuildConditionClause ==
    /\ pout = NotRun
    /\ pin.fn = "build_condition_clause"
    /\ pout' = [fn |-> pin.fn, r |-> build_condition_clause(pin.condition, pin.param_offset)]
    /\ UNCHANGED <<pin, storeVars>>

ApplyGenerateCreateTable ==
    /\ pout = NotRun
    /\ pin.fn = "generate_create_table"
    /\ pout' = [fn |-> pin.fn,
                r |-> generate_create_table(pin.config, pin.table_name, pin.columns)]
    /\ UNCHANGED <<pin, storeVars>>

ApplyGenerateAlterTable ==
    /\ pout = NotRun
    /\ pin.fn = "generate_alter_table"
    /\ pout' = [fn |-> pin.fn,
                r |-> generate_alter_table(pin.table_name, pin.old_columns, pin.new_columns)]
    /\ UNCHANGED <<pin, storeVars>>

ApplyGenerateCreateIndex ==
    /\ pout = NotRun
    /\ pin.fn = "generate_create_index"
    /\ pout' = [fn |-> pin.fn, r |-> generate_create_index(pin.table_name, pin.index)]
    /\ UNCHANGED <<pin, storeVars>>

ApplyGenerateDefaultIndex ==
    /\ pout = NotRun
    /\ pin.fn = "generate_default_index"
    /\ pout' = [fn |-> pin.fn, r |-> generate_default_index(pin.config, pin.table_name)]
    /\ UNCHANGED <<pin, storeVars>>

ApplyGenerateDropTable ==
    /\ pout = NotRun
    /\ pin.fn = "generate_drop_table"
    /\ pout' = [fn |-> pin.fn, r |-> generate_drop_table(pin.table_name)]
    /\ UNCHANGED <<pin, storeVars>>

PureNext ==
    \/ ApplyBuildConditionClause
    \/ ApplyGenerateCreateTable
    \/ ApplyGenerateAlterTable
    \/ ApplyGenerateCreateIndex
    \/ ApplyGenerateDefaultIndex
    \/ ApplyGenerateDropTable

SpecPure == PureInit /\ [][PureNext]_vars

\* ------------------------------------------------------------------------
\* Properties of the condition compiler
\* ------------------------------------------------------------------------

Placeholders(clause) ==
    LET phs == SelectSeq(clause, LAMBDA tok : tok.k = "ph")
    IN  [i \in DOMAIN phs |-> phs[i].n]

CompiledOk == pout.fn = "build_condition_clause" /\ pout.r.ok

\* C5: build_condition_clause either returns an error, or a fragment whose
\* placeholders are exactly $k, $k+1, ..., $k+n-1 from left to right, each once,
\* with n the number of parameters returned, and leaves the caller's offset at
\* k+n; an operator that binds nothing leaves the offset where it was.
C5_PlaceholdersMatchParams ==
    CompiledOk =>
        LET k == pin.param_offset
            n == Len(pout.r.params)
        IN  /\ Placeholders(pout.r.clause) = [i \in 1..n |-> k + i - 1]
            /\ pout.r.offset = k + n

C5_Witness ==
    /\ CompiledOk
    /\ pin.param_offset = 2
    /\ Len(pout.r.params) = 2
    /\ pin.condition.op = OP_AND
    /\ \E i \in DOMAIN pin.condition.arguments :
           pin.condition.arguments[i] = condition_to_value(Condition(OP_IS_EMPTY, <<JStr(F_a)>>))

\* ------------------------------------------------------------------------
\* Properties of the emitted identifiers
\* ------------------------------------------------------------------------

\* The SQL text a call returned, as one token sequence.
EmittedSql ==
    CASE pout.fn = "none" -> <<>>
      [] pout.fn = "build_condition_clause" -> IF pout.r.ok THEN pout.r.clause ELSE <<>>
      [] pout.fn = "generate_alter_table" -> Concat([i \in DOMAIN pout.r |-> pout.r[i].text])
      [] OTHER -> pout.r

\* C6: every caller-supplied identifier (table, column, index or field name)
\* that appears in emitted SQL appears only in the form quote_identifier
\* produces; in particular the column name inside an Enum column's CHECK
\* constraint is quoted.
C6_IdentifiersQuoted ==
    \A i \in DOMAIN EmittedSql :
        EmittedSql[i].k = "ident" =>
            EmittedSql[i].c = quote_identifier(EmittedSql[i].src)

\* ------------------------------------------------------------------------
\* PostgreSQL, as far as the statements of the store exercise it
\*   a data table: its columns, its rows in insertion order (each a function
\*   from column name to value, NULL being JNull), and the names of its indexes
\* ------------------------------------------------------------------------

\* config.rs: the default metadata_table
MetadataTable == <<"_","_","s","c","h","e","m","a">>

PhysicalColumn(d) ==
    [name |-> d.name, auto |-> d.auto, column_type |-> d.def.column_type,
     nullable |-> d.def.nullable, unique |-> d.def.unique,
     has_default |-> d.def.has_default, default_value |-> d.def.default_value]

ColumnNames(columns) == { columns[i].name : i \in DOMAIN columns }

\* Tables and indexes share one namespace.
Relations(tbls) ==
    DOMAIN tbls \cup { ix.name : ix \in UNION { tbls[t].indexes : t \in DOMAIN tbls } }
    \cup {MetadataTable}

\* An identifier written without quotes: PostgreSQL folds it to lower case and
\* refuses a reserved word.
is_plain_identifier(raw) ==
    /\ raw # <<>>
    /\ IsLower(raw[1]) \/ IsUpper(raw[1]) \/ raw[1] = "_"
    /\ \A i \in DOMAIN raw : IsLower(raw[i]) \/ IsUpper(raw[i]) \/ IsDigit(raw[i]) \/ raw[i] = "_"
    /\ to_uppercase(raw) \notin POSTGRES_RESERVED_WORDS

\* Whether the identifier text emitted in a statement names one of the columns.
reference_resolves(emitted, names) ==
    \/ \E n \in names : n # <<>> /\ emitted = quote_identifier(n)
    \/ is_plain_identifier(emitted) /\ to_lowercase(emitted) \in names

enum_check_ok(d, names) ==
    d.def.column_type.kind = "Enum" /\ ~d.auto =>
        /\ d.def.column_type.values # <<>>
        /\ reference_resolves(check_column_name(d.name).c, names)

pg_create_table_ok(tbls, table_name, defs) ==
    LET names == { defs[i].name : i \in DOMAIN defs }
    IN  /\ table_name # <<>>
        /\ table_name \notin Relations(tbls)
        /\ defs # <<>>
        /\ \A i \in DOMAIN defs : defs[i].name # <<>>
        /\ \A i, j \in DOMAIN defs : i # j => defs[i].name # defs[j].name
        /\ \A i \in DOMAIN defs : enum_check_ok(defs[i], names)

pg_create_table(tbls, table_name, defs) ==
    [t \in DOMAIN tbls \cup {table_name} |->
        IF t = table_name
        THEN [columns |-> [i \in DOMAIN defs |-> PhysicalColumn(defs[i])],
              rows |-> <<>>, indexes |-> {}]
        ELSE tbls[t]]

\* CREATE [UNIQUE] INDEX name ON table (columns): refs are the column
\* references as the statement spells them.
pg_create_index_ok(tbls, table_name, index_name, refs) ==
    /\ table_name \in DOMAIN tbls
    /\ index_name # <<>>
    /\ index_name \notin Relations(tbls)
    /\ refs # {}
    /\ \A r \in refs : reference_resolves(r, ColumnNames(tbls[table_name].columns))

pg_create_index(tbls, table_name, index_name, columns, unique) ==
    [tbls EXCEPT ![table_name].indexes =
        @ \cup {[name |-> index_name, columns |-> columns, unique |-> unique]}]

pg_drop_table(tbls, table_name) ==
    [t \in DOMAIN tbls \ {table_name} |-> tbls[t]]

\* The value of a DEFAULT expression (the literals the model's columns use).
default_value_of(col, now) ==
    LET text == col.default_value
        up   == to_uppercase(text)
    IN  IF ~col.has_default THEN JNull
        ELSE IF up = <<"T","R","U","E">> THEN JBool(TRUE)
        ELSE IF up = SqlFalse THEN JBool(FALSE)
        ELSE IF up = SqlNow THEN JInt(now)
        ELSE IF parse_i64_ok(text) THEN JInt(parse_i64(text))
        ELSE IF Len(text) >= 2 /\ Head(text) = SQ /\ text[Len(text)] = SQ
             THEN JStr(SubSeq(text, 2, Len(text) - 1))
        ELSE JNull

SqlTypeName(ct) ==
    CASE ct.kind \in {"String", "Enum"} -> "text"
      [] ct.kind = "Integer" -> "bigint"
      [] ct.kind = "Decimal" -> "numeric"
      [] ct.kind = "Boolean" -> "boolean"
      [] ct.kind = "Timestamp" -> "timestamptz"
      [] ct.kind = "Json" -> "jsonb"

\* ALTER COLUMN ... TYPE without USING needs an assignment cast.
assignment_cast_exists(from, to) ==
    \/ from = to
    \/ to = "text"
    \/ <<from, to>> \in { <<"bigint", "numeric">>, <<"numeric", "bigint">> }

\* value::text
cast_to_text(v) ==
    CASE v.t = "null" -> JNull
      [] v.t = "str"  -> v
      [] v.t = "int"  -> JStr(int_to_string(v.n))
      [] v.t = "bool" -> JStr(IF v.n = 1 THEN <<"t","r","u","e">> ELSE <<"f","a","l","s","e">>)
      [] OTHER -> JStr(json_to_string(v))

ColumnIndex(columns, name) == CHOOSE i \in DOMAIN columns : columns[i].name = name

RowsDistinctOn(rows, name) ==
    \A i, j \in DOMAIN rows :
        i # j /\ ~is_null(rows[i][name]) => rows[i][name] # rows[j][name]

pg_alter_ok(table, stmt, now) ==
    LET names == ColumnNames(table.columns)
        col   == stmt.col
    IN  CASE stmt.kind = "ADD" ->
                 /\ col.name # <<>>
                 /\ col.name \notin names
                 /\ enum_check_ok([name |-> col.name, auto |-> FALSE, def |-> col],
                                  names \cup {col.name})
                 /\ (~col.nullable /\ table.rows # <<>>) =>
                        ~is_null(default_value_of(col, now))
                 /\ (col.unique /\ Len(table.rows) > 1) => is_null(default_value_of(col, now))
          [] stmt.kind = "DROP" -> col.name \in names
          [] stmt.kind = "TYPE" ->
                 /\ col.name \in names
                 /\ col.column_type.kind # "Enum"
                 /\ assignment_cast_exists(
                        SqlTypeName(table.columns[ColumnIndex(table.columns, col.name)].column_type),
                        SqlTypeName(col.column_type))
          [] stmt.kind = "SET NOT NULL" ->
                 /\ col.name \in names
                 /\ \A i \in DOMAIN table.rows : ~is_null(table.rows[i][col.name])
          [] OTHER -> col.name \in names

pg_alter(table, stmt, now) ==
    LET col == stmt.col
        at  == ColumnIndex(table.columns, col.name)
    IN  CASE stmt.kind = "ADD" ->
                 [table EXCEPT
                    !.columns = Append(@, PhysicalColumn([name |-> col.name, auto |-> FALSE, def |-> col])),
                    !.rows = [i \in DOMAIN @ |->
                                 [n \in DOMAIN @[i] \cup {col.name} |->
                                     IF n = col.name THEN default_value_of(col, now) ELSE @[i][n]]]]
          [] stmt.kind = "DROP" ->
                 [table EXCEPT
                    !.columns = SelectSeq(@, LAMBDA c : c.name # col.name),
                    !.indexes = { ix \in @ : col.name \notin ix.columns },
                    !.rows = [i \in DOMAIN @ |-> [n \in DOMAIN @[i] \ {col.name} |-> @[i][n]]]]
          [] stmt.kind = "TYPE" ->
                 [table EXCEPT
                    !.columns[at].column_type =
                        IF @.kind = "Enum" /\ SqlTypeName(col.column_type) = "text"
                        THEN @ ELSE col.column_type,
                    !.rows = [i \in DOMAIN @ |->
                                 [@[i] EXCEPT ![col.name] =
                                     IF SqlTypeName(col.column_type) = "text"
                                     THEN cast_to_text(@) ELSE @]]]
          [] stmt.kind = "SET NOT NULL" -> [table EXCEPT !.columns[at].nullable = FALSE]
          [] stmt.kind = "DROP NOT NULL" -> [table EXCEPT !.columns[at].nullable = TRUE]
          [] stmt.kind = "SET DEFAULT" ->
                 [table EXCEPT !.columns[at].has_default = TRUE,
                               !.columns[at].default_value = col.default_value]
          [] stmt.kind = "DROP DEFAULT" ->
                 [table EXCEPT !.columns[at].has_default = FALSE,
                               !.columns[at].default_value = <<>>]

\* The metadata table: name UNIQUE NOT NULL, table_name UNIQUE NOT NULL, id PRIMARY KEY.
metadata_insert_ok(meta_rows, row) ==
    \A m \in meta_rows :
        m.id # row.id /\ m.name # row.name /\ m.table_name # row.table_name

metadata_update_ok(meta_rows, old_row, new_row) ==
    \A m \in meta_rows \ {old_row} : m.name # new_row.name

\* ------------------------------------------------------------------------
\* store.rs: ObjectStore, schema operations
\*   self is the store: its config and, behind its pool, the database
\*   every operation returns the store afterwards, its error ("ok" for none)
\*   and its value
\* ------------------------------------------------------------------------

ObjectStore(cfg, meta_rows, tbls, clk) ==
    [config |-> cfg, meta |-> meta_rows, tables |-> tbls, clock |-> clk]

Ret(self, err, val) == [self |-> self, err |-> err, val |-> val]

\* uuid::Uuid::new_v4().to_string(): the n-th fresh value drawn at one clock tick
new_uuid(clk, n) == <<"u">> \o int_to_string(clk) \o <<"-">> \o int_to_string(n)

CreateSchemaRequest(name, table_name, columns, indexes) ==
    [name |-> name, table_name |-> table_name, columns |-> columns, indexes |-> indexes]

\* Option fields are sequences of length at most one.
UpdateSchemaRequest(name, columns, indexes) ==
    [name |-> name, columns |-> columns, indexes |-> indexes]

row_to_schema(m) ==
    [id |-> m.id, name |-> m.name, table_name |-> m.table_name, columns |-> m.columns,
     indexes |-> m.indexes, created_at |-> m.created_at, updated_at |-> m.updated_at]

\* A WHERE without the deleted = FALSE filter
MetadataVisibleAlways(self, m) == m \in self.meta

\* WHERE ... AND deleted = FALSE, in a soft-delete store
MetadataVisible(self, m) == self.config.soft_delete => ~m.deleted

FetchOptional(found) ==
    IF found = {} THEN <<>> ELSE <<row_to_schema(CHOOSE m \in found : TRUE)>>

get_schema(self, name) ==
    FetchOptional({ m \in self.meta : m.name = name /\ MetadataVisible(self, m) })

get_schema_by_id(self, id) ==
    FetchOptional({ m \in self.meta : m.id = id /\ MetadataVisible(self, m) })

schema_by_table(self, table_name) ==
    FetchOptional({ m \in self.meta : m.table_name = table_name /\ MetadataVisible(self, m) })

\* ORDER BY created_at DESC: the set of orders PostgreSQL may return
list_schemas(self) ==
    LET visible == { m \in self.meta : MetadataVisible(self, m) }
    IN  { [i \in DOMAIN s |-> row_to_schema(s[i])] :
            s \in { q \in [1..Cardinality(visible) -> visible] :
                      /\ \A i, j \in DOMAIN q : i # j => q[i] # q[j]
                      /\ \A i, j \in DOMAIN q : i < j => q[i].created_at >= q[j].created_at } }

RECURSIVE create_indexes(_, _, _, _)
create_indexes(tbls, table_name, indexes, i) ==
    IF i > Len(indexes) THEN [tables |-> tbls, ok |-> TRUE]
    ELSE LET index_name == table_name \o <<"_">> \o indexes[i].name
             refs == { quote_identifier(indexes[i].columns[j]) : j \in DOMAIN indexes[i].columns }
         IN  IF pg_create_index_ok(tbls, table_name, index_name, refs)
             THEN create_indexes(
                      pg_create_index(tbls, table_name, index_name,
                                      Range(indexes[i].columns), indexes[i].unique),
                      table_name, indexes, i + 1)
             ELSE [tables |-> tbls, ok |-> FALSE]

default_index_name(table_name) ==
    <<"i","d","x","_">> \o table_name \o <<"_","d","e","f","a","u","l","t">>

default_index_refs(cfg) ==
    {N_created_at} \cup (IF cfg.soft_delete THEN {N_deleted} ELSE {})

create_schema(self, request) ==
    IF get_schema(self, request.name) # <<>> THEN Ret(self, "Conflict", <<>>)
    ELSE IF schema_by_table(self, request.table_name) # <<>> THEN Ret(self, "Conflict", <<>>)
    ELSE
      LET row == [id |-> new_uuid(self.clock, 0), name |-> request.name,
                  table_name |-> request.table_name, columns |-> request.columns,
                  indexes |-> request.indexes, created_at |-> self.clock,
                  updated_at |-> self.clock, deleted |-> FALSE]
          inserted == [self EXCEPT !.meta = @ \cup {row}, !.clock = @ + 1]
          defs == create_table_column_defs(self.config, request.columns)
          created == [inserted EXCEPT
                        !.tables = pg_create_table(@, request.table_name, defs)]
          indexed == [created EXCEPT
                        !.tables = pg_create_index(@, request.table_name,
                                                   default_index_name(request.table_name),
                                                   {N_created_at}, FALSE)]
          user_indexes == IF request.indexes = <<>> THEN <<>> ELSE request.indexes[1]
          done == create_indexes(indexed.tables, request.table_name, user_indexes, 1)
      IN  IF ~metadata_insert_ok(self.meta, row) THEN Ret(self, "Sql", <<>>)
          ELSE IF ~pg_create_table_ok(inserted.tables, request.table_name, defs)
               THEN Ret(inserted, "Sql", <<>>)
          ELSE IF ~pg_create_index_ok(created.tables, request.table_name,
                                      default_index_name(request.table_name),
                                      default_index_refs(self.config))
               THEN Ret(created, "Sql", <<>>)
          ELSE IF ~done.ok THEN Ret([indexed EXCEPT !.tables = done.tables], "Sql", <<>>)
          ELSE Ret([indexed EXCEPT !.tables = done.tables], "ok", <<row_to_schema(row)>>)

RECURSIVE run_alter_statements(_, _, _, _, _)
run_alter_statements(tbls, table_name, statements, i, now) ==
    IF i > Len(statements) THEN [tables |-> tbls, ok |-> TRUE]
    ELSE IF table_name \in DOMAIN tbls /\ pg_alter_ok(tbls[table_name], statements[i], now)
         THEN run_alter_statements(
                  [tbls EXCEPT ![table_name] = pg_alter(@, statements[i], now)],
                  table_name, statements, i + 1, now)
         ELSE [tables |-> tbls, ok |-> FALSE]

update_schema(self, name, request) ==
    IF get_schema(self, name) = <<>> THEN Ret(self, "SchemaNotFound", <<>>)
    ELSE
      LET existing == get_schema(self, name)[1]
          old_row == CHOOSE m \in self.meta : m.name = name /\ MetadataVisible(self, m)
          new_row == [old_row EXCEPT
                        !.updated_at = self.clock,
                        !.name = IF request.name # <<>> THEN request.name[1] ELSE @,
                        !.columns = IF request.columns # <<>> THEN request.columns[1] ELSE @,
                        !.indexes = IF request.indexes # <<>> THEN request.indexes ELSE @]
          updated == [self EXCEPT !.meta = (@ \ {old_row}) \cup {new_row}, !.clock = @ + 1]
          statements == IF request.columns # <<>>
                        THEN generate_alter_table(existing.table_name, existing.columns,
                                                  request.columns[1])
                        ELSE <<>>
          altered == run_alter_statements(updated.tables, existing.table_name, statements,
                                          1, self.clock)
      IN  IF ~metadata_update_ok(self.meta, old_row, new_row) THEN Ret(self, "Sql", <<>>)
          ELSE IF ~altered.ok THEN Ret([updated EXCEPT !.tables = altered.tables], "Sql", <<>>)
          ELSE Ret([updated EXCEPT !.tables = altered.tables], "ok", <<row_to_schema(new_row)>>)

delete_schema(self, name) ==
    IF get_schema(self, name) = <<>> THEN Ret(self, "SchemaNotFound", <<>>)
    ELSE
      LET schema == get_schema(self, name)[1]
          row == CHOOSE m \in self.meta : m.name = name /\ MetadataVisible(self, m)
      IN  IF self.config.soft_delete
          THEN Ret([self EXCEPT
                      !.meta = (@ \ {row})
                               \cup {[row EXCEPT !.deleted = TRUE, !.updated_at = self.clock]},
                      !.clock = @ + 1],
                   "ok", <<>>)
          ELSE Ret([self EXCEPT
                      !.tables = pg_drop_table(@, schema.table_name),
                      !.meta = { m \in @ : m.name # name }],
                   "ok", <<>>)

\* ------------------------------------------------------------------------
\* PostgreSQL: rows, parameters, WHERE clauses
\* ------------------------------------------------------------------------

\* A bound parameter: the SQL type the driver declares for it, and its value.
Param(ty, v) == [ty |-> ty, v |-> v]

ColumnOf(table, name) == table.columns[ColumnIndex(table.columns, name)]

\* Storing a parameter in a column needs an assignment cast.
param_fits(p, col) ==
    \/ assignment_cast_exists(p.ty, SqlTypeName(col.column_type))
    \/ p.ty = "float8" /\ SqlTypeName(col.column_type) = "numeric"

stored_value(p, col) ==
    IF SqlTypeName(col.column_type) = "text" THEN cast_to_text(p.v) ELSE p.v

\* No two rows agree, without a NULL, on all the columns of the set.
RowsDistinctOnAll(rows, names) ==
    \A i, j \in DOMAIN rows :
        (i # j /\ \A n \in names : ~is_null(rows[i][n])) =>
            \E n \in names : rows[i][n] # rows[j][n]

\* The constraints of the table, over all its rows.
constraints_hold(table) ==
    /\ \A ix \in table.indexes :
           (ix.unique /\ ix.columns \subseteq ColumnNames(table.columns)) =>
               RowsDistinctOnAll(table.rows, ix.columns)
    /\ \A k \in DOMAIN table.columns :
        LET col == table.columns[k]
        IN  /\ ~col.nullable => \A i \in DOMAIN table.rows : ~is_null(table.rows[i][col.name])
            /\ col.unique => RowsDistinctOn(table.rows, col.name)
            /\ (col.column_type.kind = "Enum" /\ ~col.auto) =>
                   \A i \in DOMAIN table.rows :
                       \/ is_null(table.rows[i][col.name])
                       \/ table.rows[i][col.name].c \in Range(col.column_type.values)

\* One row of INSERT INTO table (names) VALUES (params): a column left out takes
\* its default.
inserted_row(table, names, params, now) ==
    [n \in ColumnNames(table.columns) |->
        IF \E i \in DOMAIN names : names[i] = n
        THEN stored_value(params[CHOOSE i \in DOMAIN names : names[i] = n], ColumnOf(table, n))
        ELSE IF ColumnOf(table, n).default_value = SqlGenUuid
             THEN JStr(<<"g">> \o int_to_string(now))
             ELSE default_value_of(ColumnOf(table, n), now)]

insert_shape_ok(table, names, rows) ==
    /\ names # <<>>
    /\ \A i \in DOMAIN names : names[i] \in ColumnNames(table.columns)
    /\ \A i, j \in DOMAIN names : i # j => names[i] # names[j]
    /\ \A r \in DOMAIN rows : \A i \in DOMAIN names :
           param_fits(rows[r][i], ColumnOf(table, names[i]))

pg_insert(table, names, rows, now) ==
    [table EXCEPT !.rows = @ \o [r \in DOMAIN rows |-> inserted_row(table, names, rows[r], now)]]

pg_insert_ok(table, names, rows, now) ==
    /\ insert_shape_ok(table, names, rows)
    /\ constraints_hold(pg_insert(table, names, rows, now))

\* Three-valued logic: "T", "F", "N" (NULL)
And3(a, b) == IF a = "F" \/ b = "F" THEN "F" ELSE IF a = "N" \/ b = "N" THEN "N" ELSE "T"

Or3(a, b) == IF a = "T" \/ b = "T" THEN "T" ELSE IF a = "N" \/ b = "N" THEN "N" ELSE "F"

Not3(a) == IF a = "T" THEN "F" ELSE IF a = "F" THEN "T" ELSE "N"

Bool3(b) == IF b THEN "T" ELSE "F"

\* Byte order of the characters the model uses.
CharOrder == <<"-">> \o DigitChars \o UpperChars \o <<"_">> \o LowerChars

CharRank(c) ==
    IF c \in Range(CharOrder) THEN CHOOSE i \in DOMAIN CharOrder : CharOrder[i] = c
    ELSE Len(CharOrder) + 1

RECURSIVE TextLess(_, _)
TextLess(a, b) ==
    IF b = <<>> THEN FALSE
    ELSE IF a = <<>> THEN TRUE
    ELSE IF Head(a) = Head(b) THEN TextLess(Tail(a), Tail(b))
    ELSE CharRank(Head(a)) < CharRank(Head(b))

\* text LIKE pattern
RECURSIVE Like(_, _)
Like(text, pattern) ==
    IF pattern = <<>> THEN text = <<>>
    ELSE IF Head(pattern) = "%"
         THEN Like(text, Tail(pattern)) \/ (text # <<>> /\ Like(Tail(text), pattern))
    ELSE IF Head(pattern) = "_" THEN text # <<>> /\ Like(Tail(text), Tail(pattern))
    ELSE IF Head(pattern) = "\\" /\ Len(pattern) > 1
         THEN text # <<>> /\ Head(text) = pattern[2] /\ Like(Tail(text), Tail(Tail(pattern)))
    ELSE text # <<>> /\ Head(text) = Head(pattern) /\ Like(Tail(text), Tail(pattern))

\* The text a condition parameter is bound as.
param_str(param) == IF param.t = "str" THEN param.c ELSE json_to_string(param)

compare_text(operator, a, b) ==
    CASE operator = "="  -> a = b
      [] operator = "!=" -> a # b
      [] operator = ">"  -> TextLess(b, a)
      [] operator = "<"  -> TextLess(a, b)
      [] operator = ">=" -> ~TextLess(a, b)
      [] operator = "<=" -> ~TextLess(b, a)

\* The columns a compiled condition refers to.
RECURSIVE condition_fields(_)
condition_fields(cond) ==
    IF to_uppercase(cond.op) \in {OP_AND, OP_OR, OP_NOT}
    THEN UNION { condition_fields(from_value(cond.arguments[i])) :
                   i \in { j \in DOMAIN cond.arguments : from_value_ok(cond.arguments[j]) } }
    ELSE {cond.arguments[1].c}

\* PostgreSQL's value of the clause build_condition_clause compiles cond to, on
\* one row.
RECURSIVE eval_condition(_, _)
RECURSIVE eval_logical(_, _, _, _)
eval_logical(op, args, i, row) ==
    IF i > Len(args) THEN (IF op = OP_AND THEN "T" ELSE "F")
    ELSE IF from_value_ok(args[i])
    THEN LET here == eval_condition(from_value(args[i]), row)
             rest == eval_logical(op, args, i + 1, row)
         IN  IF op = OP_AND THEN And3(here, rest) ELSE Or3(here, rest)
    ELSE eval_logical(op, args, i + 1, row)

eval_condition(cond, row) ==
    LET op    == to_uppercase(cond.op)
        args  == cond.arguments
        cell  == row[args[1].c]
        text  == cast_to_text(cell).c
        found == { param_str(args[2].a[i]) :
                     i \in { j \in DOMAIN args[2].a : ~is_null(args[2].a[j]) } }
        any   == IF is_null(cell) THEN "N"
                 ELSE IF text \in found THEN "T"
                 ELSE IF \E j \in DOMAIN args[2].a : is_null(args[2].a[j]) THEN "N"
                 ELSE "F"
    IN  CASE op \in {OP_AND, OP_OR} -> eval_logical(op, args, 1, row)
          [] op = OP_NOT -> Not3(eval_condition(from_value(args[1]), row))
          [] op \in ComparisonOps ->
                 IF is_null(args[2])
                 THEN Bool3(IF op = OP_EQ THEN is_null(cell) ELSE ~is_null(cell))
                 ELSE IF is_null(cell) THEN "N"
                 ELSE Bool3(compare_text(comparison_operator(op), text, param_str(args[2])))
          [] op = OP_CONTAINS ->
                 IF is_null(cell) THEN "N"
                 ELSE Bool3(Like(text, <<"%">> \o args[2].c \o <<"%">>))
          [] op = OP_IN -> any
          [] op = OP_NOT_IN -> Not3(any)
          [] op = OP_IS_EMPTY -> Bool3(is_null(cell) \/ text = <<>>)
          [] op = OP_IS_NOT_EMPTY -> Bool3(~is_null(cell) /\ text # <<>>)
          [] op = OP_IS_DEFINED -> Bool3(~is_null(cell))

\* A WHERE clause of the store: id = $1 (an option), deleted = FALSE, and a
\* compiled condition (an option).
Where(id, live, cond) == [id |-> id, live |-> live, cond |-> cond]

where_ok(table, w) ==
    LET names == ColumnNames(table.columns)
    IN  /\ w.id # <<>> =>
               N_id \in names /\ SqlTypeName(ColumnOf(table, N_id).column_type) = "text"
        /\ w.live =>
               N_deleted \in names
               /\ SqlTypeName(ColumnOf(table, N_deleted).column_type) = "boolean"
        /\ w.cond # <<>> => condition_fields(w.cond[1]) \subseteq names

where_matches(w, row) ==
    /\ w.id # <<>> => row[N_id] = JStr(w.id[1])
    /\ w.live => row[N_deleted] = JBool(FALSE)
    /\ w.cond # <<>> => eval_condition(w.cond[1], row) = "T"

Matching(table, w) == { i \in DOMAIN table.rows : where_matches(w, table.rows[i]) }

\* UPDATE table SET names = params [, updated_at = NOW()] WHERE w
pg_update(table, names, params, touch, w, now) ==
    [table EXCEPT !.rows =
        [i \in DOMAIN @ |->
            IF where_matches(w, @[i])
            THEN [n \in DOMAIN @[i] |->
                     IF \E k \in DOMAIN names : names[k] = n
                     THEN stored_value(params[CHOOSE k \in DOMAIN names : names[k] = n],
                                       ColumnOf(table, n))
                     ELSE IF n \in touch THEN JInt(now)
                     ELSE @[i][n]]
            ELSE @[i]]]

pg_update_ok(table, names, params, touch, w, now) ==
    /\ where_ok(table, w)
    /\ touch \subseteq ColumnNames(table.columns)
    /\ \A i \in DOMAIN names :
           /\ names[i] \in ColumnNames(table.columns)
           /\ param_fits(params[i], ColumnOf(table, names[i]))
    /\ \A i, j \in DOMAIN names : i # j => names[i] # names[j]
    /\ constraints_hold(pg_update(table, names, params, touch, w, now))

\* DELETE FROM table WHERE w
pg_delete(table, w) ==
    [table EXCEPT !.rows = SelectSeq(@, LAMBDA row : ~where_matches(w, row))]

\* ORDER BY: NULL sorts as larger than every value.
SqlLess(a, b) ==
    IF is_null(a) THEN FALSE
    ELSE IF is_null(b) THEN TRUE
    ELSE IF a.t = "str" THEN TextLess(a.c, cast_to_text(b).c)
    ELSE a.n < b.n

RECURSIVE RowBefore(_, _, _, _)
RowBefore(keys, i, r1, r2) ==
    IF i > Len(keys) THEN FALSE
    ELSE LET a == r1[keys[i].field]
             b == r2[keys[i].field]
         IN  IF a = b THEN RowBefore(keys, i + 1, r1, r2)
             ELSE IF keys[i].desc THEN SqlLess(b, a) ELSE SqlLess(a, b)

\* The orders in which PostgreSQL may return the chosen rows.
Orderings(rows, chosen, keys) ==
    { q \in [1..Cardinality(chosen) -> chosen] :
        /\ \A i, j \in DOMAIN q : i # j => q[i] # q[j]
        /\ \A i, j \in DOMAIN q : i < j => ~RowBefore(keys, 1, rows[q[j]], rows[q[i]]) }

\* LIMIT limit, with the offset left out
PageFromStart(s, limit, offset) == SubSeq(s, 1, IF limit < Len(s) THEN limit ELSE Len(s))

\* LIMIT limit OFFSET offset
Page(s, limit, offset) ==
    SubSeq(s, offset + 1, IF offset + limit < Len(s) THEN offset + limit ELSE Len(s))

\* ------------------------------------------------------------------------
\* sql/condition.rs: build_order_by_clause
\* ------------------------------------------------------------------------

N_createdAt == <<"c","r","e","a","t","e","d","A","t">>

N_updatedAt == <<"u","p","d","a","t","e","d","A","t">>

field_to_sql(field) ==
    IF field = N_createdAt THEN N_created_at
    ELSE IF field = N_updatedAt THEN N_updated_at
    ELSE field

system_fields == {N_id, N_createdAt, N_updatedAt, N_created_at, N_updated_at}

S_ASC == <<"A","S","C">>

S_DESC == <<"D","E","S","C">>

\* The order of the i-th sort field taken as written, not upper-cased
sort_order_at_verbatim(sort_order, i) ==
    IF sort_order # <<>> /\ i <= Len(sort_order[1]) THEN sort_order[1][i]
    ELSE S_ASC

\* The order of the i-th sort field: orders.and_then(|o| o.get(i)), upper-cased
sort_order_at(sort_order, i) ==
    IF sort_order # <<>> /\ i <= Len(sort_order[1]) THEN to_uppercase(sort_order[1][i])
    ELSE S_ASC

\* sort_by and sort_order are options (sequences of length at most one).
\* Returns the keys of the clause, and its text.
build_order_by_clause(sort_by, sort_order, schema) ==
    IF sort_by = <<>> \/ sort_by[1] = <<>>
    THEN [ok |-> TRUE, keys |-> <<[field |-> N_created_at, desc |-> FALSE]>>,
          clause |-> <<T("created_at ASC")>>]
    ELSE LET fields == sort_by[1]
             bad_field(i) ==
                 /\ fields[i] \notin system_fields
                 /\ field_to_sql(fields[i]) \notin system_fields
                 /\ ~HasColumn(schema.columns, fields[i])
             bad_order(i) == sort_order_at(sort_order, i) \notin {S_ASC, S_DESC}
         IN  IF \E i \in DOMAIN fields : bad_field(i) \/ bad_order(i)
             THEN [ok |-> FALSE, keys |-> <<>>, clause |-> <<>>]
             ELSE [ok |-> TRUE,
                   keys |-> [i \in DOMAIN fields |->
                                [field |-> field_to_sql(fields[i]),
                                 desc |-> sort_order_at(sort_order, i) = S_DESC]],
                   clause |-> Join([i \in DOMAIN fields |->
                                       <<quoted(field_to_sql(fields[i])), T(" "),
                                         TLit(sort_order_at(sort_order, i))>>],
                                   <<T(", ")>>)]

\* ------------------------------------------------------------------------
\* store.rs: ObjectStore, instance operations
\* ------------------------------------------------------------------------

BindOk(p) == [ok |-> TRUE, param |-> p]

BindErr == [ok |-> FALSE, param |-> Param("text", JNull)]

bool_word(s) ==
    IF to_lowercase(s) \in BoolTrueWords THEN BindOk(Param("boolean", JBool(TRUE)))
    ELSE IF to_lowercase(s) \in BoolFalseWords THEN BindOk(Param("boolean", JBool(FALSE)))
    ELSE BindErr

\* The parameter bound for a value. A decimal and a timestamp are kept in the
\* form the caller wrote them.
bind_value(ct, value) ==
    CASE ct.kind \in {"String", "Enum"} ->
             IF is_null(value) THEN BindOk(Param("text", JNull))
             ELSE IF value.t = "str" THEN BindOk(Param("text", value))
             ELSE BindErr
      [] ct.kind = "Integer" ->
             IF is_null(value) THEN BindOk(Param("bigint", JNull))
             ELSE IF value.t = "int" THEN BindOk(Param("bigint", value))
             ELSE IF value.t = "str" /\ parse_i64_ok(value.c)
                  THEN BindOk(Param("bigint", JInt(parse_i64(value.c))))
             ELSE BindErr
      [] ct.kind = "Decimal" ->
             IF is_null(value) THEN BindOk(Param("float8", JNull))
             ELSE IF value.t = "int" THEN BindOk(Param("float8", value))
             ELSE IF value.t = "str" /\ parse_f64_ok(value.c)
                  THEN BindOk(Param("float8", value))
             ELSE BindErr
      [] ct.kind = "Boolean" ->
             IF is_null(value) THEN BindOk(Param("boolean", JNull))
             ELSE IF value.t = "bool" THEN BindOk(Param("boolean", value))
             ELSE IF value.t = "str" THEN bool_word(value.c)
             ELSE BindErr
      [] ct.kind = "Timestamp" ->
             IF is_null(value) THEN BindOk(Param("timestamptz", JNull))
             ELSE IF value.t = "str" /\ parse_from_rfc3339_ok(value.c)
                  THEN BindOk(Param("timestamptz", value))
             ELSE BindErr
      [] ct.kind = "Json" -> BindOk(Param("jsonb", value))

\* DateTime::to_rfc3339 of a time of the model's clock
to_rfc3339(v) == IF v.t = "int" THEN int_to_string(v.n) ELSE <<>>

\* try_get::<Option<T>>(name).ok().flatten(): no value for NULL, nor for a
\* column whose stored type T cannot decode.
extract_column_value(row, col) ==
    LET v == row[col.name]
        kind == col.column_type.kind
    IN  IF is_null(v) /\ kind # "Json" THEN <<>>
        ELSE CASE kind \in {"String", "Enum"} -> IF v.t = "str" THEN <<v>> ELSE <<>>
               [] kind \in {"Integer", "Decimal"} -> IF v.t = "int" THEN <<v>> ELSE <<>>
               [] kind = "Boolean" -> IF v.t = "bool" THEN <<v>> ELSE <<>>
               [] kind = "Timestamp" -> IF v.t = "str" THEN <<v>> ELSE <<>>
               [] kind = "Json" -> <<v>>

row_to_instance(cfg, row, schema) ==
    LET present == { i \in DOMAIN schema.columns :
                       extract_column_value(row, schema.columns[i]) # <<>> }
    IN  [id |-> IF cfg.auto_columns.id /\ row[N_id].t = "str" THEN row[N_id].c ELSE <<>>,
         created_at |-> IF cfg.auto_columns.created_at THEN to_rfc3339(row[N_created_at])
                        ELSE <<>>,
         updated_at |-> IF cfg.auto_columns.updated_at THEN to_rfc3339(row[N_updated_at])
                        ELSE <<>>,
         schema_id |-> schema.id,
         schema_name |-> schema.name,
         properties |-> [n \in { schema.columns[i].name : i \in present } |->
                            extract_column_value(row, FindColumn(schema.columns, n))[1]]]

\* The columns a SELECT of the store lists.
select_columns(cfg, schema) ==
    (IF cfg.auto_columns.id THEN {N_id} ELSE {})
    \cup (IF cfg.auto_columns.created_at THEN {N_created_at} ELSE {})
    \cup (IF cfg.auto_columns.updated_at THEN {N_updated_at} ELSE {})
    \cup ColumnNames(schema.columns)

\* The first column (1-based) whose check fails for the properties, 0 for none.
\* check_null: a NULL for a NOT NULL column is refused;
\* check_missing: a NOT NULL column without default must be present.
first_invalid_column(columns, obj, check_null, check_missing) ==
    LET bad(i) ==
            LET col == columns[i]
            IN  IF col.name \in DOMAIN obj
                THEN \/ ~validate_value(col.column_type, obj[col.name])
                     \/ check_null /\ ~col.nullable /\ is_null(obj[col.name])
                ELSE check_missing /\ ~col.nullable /\ ~col.has_default
        failing == { i \in DOMAIN columns : bad(i) }
    IN  IF failing = {} THEN 0 ELSE CHOOSE i \in failing : \A j \in failing : i <= j

Supplied(columns, obj) == SelectSeq(columns, LAMBDA c : c.name \in DOMAIN obj)

\* WHERE id = $1 [AND deleted = FALSE]
instance_where_all(cfg, instance_id) == Where(<<instance_id>>, FALSE, <<>>)

instance_where(cfg, instance_id) == Where(<<instance_id>>, cfg.soft_delete, <<>>)

\* WHERE [deleted = FALSE AND] (condition)
base_where_all(cfg, condition) == Where(<<>>, FALSE, condition)

base_where(cfg, condition) == Where(<<>>, cfg.soft_delete, condition)

HasTable(self, schema) == schema.table_name \in DOMAIN self.tables

WithTable(self, schema, table) ==
    [self EXCEPT !.tables[schema.table_name] = table, !.clock = @ + 1]

create_instance(self, schema_name, properties) ==
    IF get_schema(self, schema_name) = <<>> THEN Ret(self, "SchemaNotFound", <<>>)
    ELSE IF properties.t # "obj" THEN Ret(self, "Validation", <<>>)
    ELSE
      LET schema == get_schema(self, schema_name)[1]
          obj == properties.o
          instance_id == new_uuid(self.clock, 0)
          supplied == Supplied(schema.columns, obj)
          bound == [i \in DOMAIN supplied |->
                       bind_value(supplied[i].column_type, obj[supplied[i].name])]
          names == (IF self.config.auto_columns.id THEN <<N_id>> ELSE <<>>)
                   \o [i \in DOMAIN supplied |-> supplied[i].name]
          params == (IF self.config.auto_columns.id
                     THEN <<Param("text", JStr(instance_id))>> ELSE <<>>)
                    \o [i \in DOMAIN supplied |-> bound[i].param]
          table == self.tables[schema.table_name]
      IN  IF first_invalid_column(schema.columns, obj, TRUE, TRUE) # 0
          THEN Ret(self, "Validation", <<>>)
          ELSE IF \E i \in DOMAIN bound : ~bound[i].ok THEN Ret(self, "Validation", <<>>)
          ELSE IF ~HasTable(self, schema) \/ ~pg_insert_ok(table, names, <<params>>, self.clock)
               THEN Ret(self, "Sql", <<>>)
          ELSE Ret(WithTable(self, schema, pg_insert(table, names, <<params>>, self.clock)),
                   "ok", <<instance_id>>)

FirstOf(S) == CHOOSE i \in S : \A j \in S : i <= j

get_instance(self, schema_name, instance_id) ==
    IF get_schema(self, schema_name) = <<>> THEN Ret(self, "SchemaNotFound", <<>>)
    ELSE
      LET schema == get_schema(self, schema_name)[1]
          table == self.tables[schema.table_name]
          w == instance_where(self.config, instance_id)
          found == Matching(table, w)
      IN  IF \/ ~HasTable(self, schema)
             \/ ~(select_columns(self.config, schema) \subseteq ColumnNames(table.columns))
             \/ ~where_ok(table, w)
          THEN Ret(self, "Sql", <<>>)
          ELSE IF found = {} THEN Ret(self, "ok", <<>>)
          ELSE Ret(self, "ok",
                   <<row_to_instance(self.config, table.rows[FirstOf(found)], schema)>>)

\* The touch of updated_at = NOW()
touch_updated_at(cfg) == IF cfg.auto_columns.updated_at THEN {N_updated_at} ELSE {}

\* set_clauses holds the touch of updated_at, when enabled, and one entry per
\* supplied column.
set_clauses_len(cfg, supplied) ==
    (IF cfg.auto_columns.updated_at THEN 1 ELSE 0) + Len(supplied)

\* An early return that only looks for an empty SET list.
nothing_to_update_empty(cfg, supplied) == set_clauses_len(cfg, supplied) = 0

\* set_clauses.is_empty() || (set_clauses.len() == 1 && auto_columns.updated_at)
nothing_to_update(cfg, supplied) ==
    \/ set_clauses_len(cfg, supplied) = 0
    \/ set_clauses_len(cfg, supplied) = 1 /\ cfg.auto_columns.updated_at

update_instance(self, schema_name, instance_id, properties) ==
    IF get_schema(self, schema_name) = <<>> THEN Ret(self, "SchemaNotFound", <<>>)
    ELSE IF properties.t # "obj" THEN Ret(self, "Validation", <<>>)
    ELSE
      LET schema == get_schema(self, schema_name)[1]
          obj == properties.o
          supplied == Supplied(schema.columns, obj)
          bound == [i \in DOMAIN supplied |->
                       bind_value(supplied[i].column_type, obj[supplied[i].name])]
          names == [i \in DOMAIN supplied |-> supplied[i].name]
          params == [i \in DOMAIN supplied |-> bound[i].param]
          touch == touch_updated_at(self.config)
          table == self.tables[schema.table_name]
          w == instance_where(self.config, instance_id)
      IN  IF first_invalid_column(schema.columns, obj, FALSE, FALSE) # 0
          THEN Ret(self, "Validation", <<>>)
          ELSE IF nothing_to_update(self.config, supplied) THEN Ret(self, "ok", <<>>)
          ELSE IF \E i \in DOMAIN bound : ~bound[i].ok THEN Ret(self, "Validation", <<>>)
          ELSE IF \/ ~HasTable(self, schema)
                  \/ ~pg_update_ok(table, names, params, touch, w, self.clock)
               THEN Ret(self, "Sql", <<>>)
          ELSE IF Matching(table, w) = {} THEN Ret(self, "InstanceNotFound", <<>>)
          ELSE Ret(WithTable(self, schema,
                             pg_update(table, names, params, touch, w, self.clock)),
                   "ok", <<>>)

delete_instance(self, schema_name, instance_id) ==
    IF get_schema(self, schema_name) = <<>> THEN Ret(self, "SchemaNotFound", <<>>)
    ELSE
      LET schema == get_schema(self, schema_name)[1]
          table == self.tables[schema.table_name]
          touch == touch_updated_at(self.config)
          soft_w == Where(<<instance_id>>, TRUE, <<>>)
          hard_w == Where(<<instance_id>>, FALSE, <<>>)
          mark == <<Param("boolean", JBool(TRUE))>>
      IN  IF self.config.soft_delete
          THEN IF \/ ~HasTable(self, schema)
                  \/ ~pg_update_ok(table, <<N_deleted>>, mark, touch, soft_w, self.clock)
               THEN Ret(self, "Sql", <<>>)
               ELSE IF Matching(table, soft_w) = {} THEN Ret(self, "InstanceNotFound", <<>>)
               ELSE Ret(WithTable(self, schema,
                            pg_update(table, <<N_deleted>>, mark, touch, soft_w, self.clock)),
                        "ok", <<>>)
          ELSE IF ~HasTable(self, schema) \/ ~where_ok(table, hard_w)
               THEN Ret(self, "Sql", <<>>)
               ELSE IF Matching(table, hard_w) = {} THEN Ret(self, "InstanceNotFound", <<>>)
               ELSE Ret(WithTable(self, schema, pg_delete(table, hard_w)), "ok", <<>>)

\* ------------------------------------------------------------------------
\* store.rs: ObjectStore, bulk operations and queries
\* ------------------------------------------------------------------------

\* The parameter budget of one statement. The source's 32000 is scaled down so
\* that a call of a few rows spans several chunks.
ParamLimit == 4

Max(a, b) == IF a > b THEN a ELSE b

Min(a, b) == IF a < b THEN a ELSE b

\* A chunk size that leaves the id parameter out of the row's parameters.
chunk_size_columns_only(schema) ==
    Max(ParamLimit \div Max(Len(schema.columns), 1), 1)

chunk_size(schema) ==
    LET params_per_row == 1 + Len(schema.columns)
    IN  Max(ParamLimit \div Max(params_per_row, 1), 1)

\* A store whose statements take effect one by one, outside any transaction.
dropped_uncommitted(self, working) == working

\* let mut tx = self.pool.begin(): a transaction dropped without commit rolls
\* back, none of its statements took effect.
dropped_transaction(self, working) == self

update_instances(self, schema_name, properties, condition) ==
    IF get_schema(self, schema_name) = <<>> THEN Ret(self, "SchemaNotFound", <<>>)
    ELSE IF properties.t # "obj" THEN Ret(self, "Validation", <<>>)
    ELSE
      LET schema == get_schema(self, schema_name)[1]
          obj == properties.o
          supplied == Supplied(schema.columns, obj)
          bound == [i \in DOMAIN supplied |->
                       bind_value(supplied[i].column_type, obj[supplied[i].name])]
          names == [i \in DOMAIN supplied |-> supplied[i].name]
          params == [i \in DOMAIN supplied |-> bound[i].param]
          touch == touch_updated_at(self.config)
          compiled == build_condition_clause(condition, 1 + Len(supplied))
          table == self.tables[schema.table_name]
          w == base_where(self.config, <<condition>>)
      IN  IF first_invalid_column(schema.columns, obj, FALSE, FALSE) # 0
          THEN Ret(self, "Validation", <<>>)
          ELSE IF nothing_to_update(self.config, supplied) THEN Ret(self, "ok", <<0>>)
          ELSE IF ~compiled.ok THEN Ret(self, "InvalidCondition", <<>>)
          ELSE IF \E i \in DOMAIN bound : ~bound[i].ok THEN Ret(self, "Validation", <<>>)
          ELSE IF \/ ~HasTable(self, schema)
                  \/ ~pg_update_ok(table, names, params, touch, w, self.clock)
               THEN Ret(self, "Sql", <<>>)
          ELSE IF Matching(table, w) = {} THEN Ret(self, "ok", <<0>>)
          ELSE Ret(WithTable(self, schema,
                             pg_update(table, names, params, touch, w, self.clock)),
                   "ok", <<Cardinality(Matching(table, w))>>)

delete_instances(self, schema_name, condition) ==
    IF get_schema(self, schema_name) = <<>> THEN Ret(self, "SchemaNotFound", <<>>)
    ELSE
      LET schema == get_schema(self, schema_name)[1]
          compiled == build_condition_clause(condition, 1)
          table == self.tables[schema.table_name]
          touch == touch_updated_at(self.config)
          soft_w == Where(<<>>, TRUE, <<condition>>)
          hard_w == Where(<<>>, FALSE, <<condition>>)
          mark == <<Param("boolean", JBool(TRUE))>>
      IN  IF ~compiled.ok THEN Ret(self, "InvalidCondition", <<>>)
          ELSE IF self.config.soft_delete
          THEN IF \/ ~HasTable(self, schema)
                  \/ ~pg_update_ok(table, <<N_deleted>>, mark, touch, soft_w, self.clock)
               THEN Ret(self, "Sql", <<>>)
               ELSE IF Matching(table, soft_w) = {} THEN Ret(self, "ok", <<0>>)
               ELSE Ret(WithTable(self, schema,
                            pg_update(table, <<N_deleted>>, mark, touch, soft_w, self.clock)),
                        "ok", <<Cardinality(Matching(table, soft_w))>>)
          ELSE IF ~HasTable(self, schema) \/ ~where_ok(table, hard_w)
               THEN Ret(self, "Sql", <<>>)
               ELSE IF Matching(table, hard_w) = {} THEN Ret(self, "ok", <<0>>)
               ELSE Ret(WithTable(self, schema, pg_delete(table, hard_w)),
                        "ok", <<Cardinality(Matching(table, hard_w))>>)

\* The first instance (1-based) that fails pre-validation, 0 for none.
first_invalid_row(columns, instances, check_null, check_missing) ==
    LET failing == { i \in DOMAIN instances :
                       \/ instances[i].t # "obj"
                       \/ first_invalid_column(columns, instances[i].o,
                                               check_null, check_missing) # 0 }
    IN  IF failing = {} THEN 0 ELSE FirstOf(failing)

bulk_names(cfg, schema) ==
    (IF cfg.auto_columns.id THEN <<N_id>> ELSE <<>>)
    \o [i \in DOMAIN schema.columns |-> schema.columns[i].name]

\* The parameters of one row: a column the row leaves out is bound as
\* None::<String>.
bulk_row(cfg, schema, obj, instance_id) ==
    (IF cfg.auto_columns.id THEN <<BindOk(Param("text", JStr(instance_id)))>> ELSE <<>>)
    \o [i \in DOMAIN schema.columns |->
           IF schema.columns[i].name \in DOMAIN obj
           THEN bind_value(schema.columns[i].column_type, obj[schema.columns[i].name])
           ELSE BindOk(Param("text", JNull))]

bulk_rows(self, schema, instances) ==
    [i \in DOMAIN instances |->
        bulk_row(self.config, schema, instances[i].o, new_uuid(self.clock, i))]

ParamsOf(bound_rows) ==
    [r \in DOMAIN bound_rows |-> [i \in DOMAIN bound_rows[r] |-> bound_rows[r][i].param]]

AllBound(bound_rows) ==
    \A r \in DOMAIN bound_rows : \A i \in DOMAIN bound_rows[r] : bound_rows[r][i].ok

\* validated_instances.chunks(chunk_size): the chunk that starts at row start
chunk_at(bound_rows, size, start) ==
    SubSeq(bound_rows, start, Min(start + size - 1, Len(bound_rows)))

\* validated_instances.chunks(chunk_size): the chunks in order, each of size
\* rows but the last, which holds the rest
chunks(bound_rows, size) ==
    [k \in 1..((Len(bound_rows) + size - 1) \div size) |->
        chunk_at(bound_rows, size, (k - 1) * size + 1)]

\* for chunk in validated_instances.chunks(chunk_size): one INSERT per chunk
RECURSIVE insert_chunks(_, _, _, _, _, _)
insert_chunks(table, names, bound_rows, size, start, now) ==
    IF start > Len(bound_rows) THEN [err |-> "ok", table |-> table]
    ELSE LET chunk == chunk_at(bound_rows, size, start)
         IN  IF ~AllBound(chunk) THEN [err |-> "Validation", table |-> table]
             ELSE IF ~pg_insert_ok(table, names, ParamsOf(chunk), now)
                  THEN [err |-> "Sql", table |-> table]
             ELSE insert_chunks(pg_insert(table, names, ParamsOf(chunk), now),
                                names, bound_rows, size, start + size, now)

create_instances(self, schema_name, instances) ==
    IF instances = <<>> THEN Ret(self, "ok", <<0>>)
    ELSE IF get_schema(self, schema_name) = <<>> THEN Ret(self, "SchemaNotFound", <<>>)
    ELSE
      LET schema == get_schema(self, schema_name)[1]
          invalid == first_invalid_row(schema.columns, instances, TRUE, TRUE)
          table == self.tables[schema.table_name]
          done == insert_chunks(table, bulk_names(self.config, schema),
                                bulk_rows(self, schema, instances),
                                chunk_size(schema), 1, self.clock)
      IN  IF invalid # 0 THEN Ret(self, "Validation", <<invalid - 1>>)
          ELSE IF ~HasTable(self, schema) THEN Ret(self, "Sql", <<>>)
          ELSE IF done.err # "ok"
               THEN Ret(dropped_transaction(self, WithTable(self, schema, done.table)),
                        done.err, <<>>)
          ELSE Ret(WithTable(self, schema, done.table), "ok", <<Len(instances)>>)

\* ON CONFLICT (conflict_columns) needs a unique index over exactly them.
conflict_target_ok(table, target) ==
    /\ target \subseteq ColumnNames(table.columns)
    /\ \/ \E n \in target : target = {n} /\ ColumnOf(table, n).unique
       \/ \E ix \in table.indexes : ix.unique /\ ix.columns = target

row_constraints_hold(table, row) == constraints_hold([table EXCEPT !.rows = <<row>>])

\* INSERT ... ON CONFLICT (target) DO UPDATE SET update_names = EXCLUDED.*
\* [, updated_at = NOW()] or DO NOTHING, one proposed row after the other.
\* touched: the rows this statement has inserted or updated so far.
RECURSIVE upsert_rows(_, _, _, _, _, _, _, _, _, _)
upsert_rows(table, names, rows, i, target, update_names, touch, now, touched, affected) ==
    IF i > Len(rows) THEN [ok |-> TRUE, table |-> table, affected |-> affected]
    ELSE
      LET proposed == inserted_row(table, names, rows[i], now)
          conflicts == { k \in DOMAIN table.rows :
                           \A c \in target :
                               ~is_null(proposed[c]) /\ table.rows[k][c] = proposed[c] }
          k == FirstOf(conflicts)
          appended == [table EXCEPT !.rows = Append(@, proposed)]
          merged == [table EXCEPT !.rows[k] =
                        [n \in DOMAIN @ |->
                            IF n \in update_names THEN proposed[n]
                            ELSE IF n \in touch THEN JInt(now)
                            ELSE @[n]]]
          failed == [ok |-> FALSE, table |-> table, affected |-> affected]
      IN  IF ~row_constraints_hold(table, proposed) THEN failed
          ELSE IF conflicts = {}
          THEN IF constraints_hold(appended)
               THEN upsert_rows(appended, names, rows, i + 1, target, update_names, touch,
                                now, touched \cup {Len(appended.rows)}, affected + 1)
               ELSE failed
          ELSE IF update_names = {} /\ touch = {}
          THEN upsert_rows(table, names, rows, i + 1, target, update_names, touch,
                           now, touched, affected)
          ELSE IF k \in touched THEN failed
          ELSE IF constraints_hold(merged)
               THEN upsert_rows(merged, names, rows, i + 1, target, update_names, touch,
                                now, touched \cup {k}, affected + 1)
               ELSE failed

pg_upsert(table, names, rows, target, update_names, touch, now) ==
    IF /\ insert_shape_ok(table, names, rows)
       /\ conflict_target_ok(table, target)
       /\ update_names \cup touch \subseteq ColumnNames(table.columns)
    THEN upsert_rows(table, names, rows, 1, target, update_names, touch, now, {}, 0)
    ELSE [ok |-> FALSE, table |-> table, affected |-> 0]

RECURSIVE upsert_chunks(_, _, _, _, _, _, _, _, _, _)
upsert_chunks(table, names, bound_rows, size, start, target, update_names, touch, now, affected) ==
    IF start > Len(bound_rows) THEN [err |-> "ok", table |-> table, affected |-> affected]
    ELSE LET chunk == chunk_at(bound_rows, size, start)
             done == pg_upsert(table, names, ParamsOf(chunk), target, update_names, touch, now)
         IN  IF ~AllBound(chunk)
             THEN [err |-> "Validation", table |-> table, affected |-> affected]
             ELSE IF ~done.ok THEN [err |-> "Sql", table |-> table, affected |-> affected]
             ELSE upsert_chunks(done.table, names, bound_rows, size, start + size, target,
                                update_names, touch, now, affected + done.affected)

\* One entry of update_sets: the column it assigns, whether the value is the
\* proposed row's (EXCLUDED) or NOW(), and its text.
UpdateSet(name, excluded, text) == [name |-> name, excluded |-> excluded, text |-> text]

\* update_sets: one entry per schema column outside the conflict set, then the
\* touch of updated_at when that auto column is enabled.
update_sets(cfg, schema, conflict_columns) ==
    LET kept == SelectSeq(schema.columns, LAMBDA col : col.name \notin Range(conflict_columns))
    IN  [i \in DOMAIN kept |->
            UpdateSet(kept[i].name, TRUE,
                      <<quoted(kept[i].name), T(" = EXCLUDED."), quoted(kept[i].name)>>)]
        \o (IF cfg.auto_columns.updated_at
            THEN <<UpdateSet(N_updated_at, FALSE, <<T("updated_at = NOW()")>>)>>
            ELSE <<>>)

\* The end of upsert_sql, from ON CONFLICT on.
on_conflict_clause(cfg, schema, conflict_columns) ==
    LET sets == update_sets(cfg, schema, conflict_columns)
        conflict_cols == [i \in DOMAIN conflict_columns |-> <<quoted(conflict_columns[i])>>]
    IN  <<T(" ON CONFLICT (")>> \o Join(conflict_cols, <<T(", ")>>)
        \o (IF sets = <<>> THEN <<T(") DO NOTHING")>>
            ELSE <<T(") DO UPDATE SET ")>>
                 \o Join([i \in DOMAIN sets |-> sets[i].text], <<T(", ")>>))

upsert_instances(self, schema_name, instances, conflict_columns) ==
    IF instances = <<>> THEN Ret(self, "ok", <<0>>)
    ELSE IF conflict_columns = <<>> THEN Ret(self, "Validation", <<>>)
    ELSE IF get_schema(self, schema_name) = <<>> THEN Ret(self, "SchemaNotFound", <<>>)
    ELSE
      LET schema == get_schema(self, schema_name)[1]
          target == Range(conflict_columns)
          invalid == first_invalid_row(schema.columns, instances, FALSE, FALSE)
          sets == update_sets(self.config, schema, conflict_columns)
          update_names == { sets[i].name : i \in { j \in DOMAIN sets : sets[j].excluded } }
          touch == { sets[i].name : i \in { j \in DOMAIN sets : ~sets[j].excluded } }
          table == self.tables[schema.table_name]
          done == upsert_chunks(table, bulk_names(self.config, schema),
                                bulk_rows(self, schema, instances), chunk_size(schema), 1,
                                target, update_names, touch, self.clock, 0)
      IN  IF \E c \in target : c # N_id /\ ~HasColumn(schema.columns, c)
          THEN Ret(self, "Validation", <<>>)
          ELSE IF invalid # 0 THEN Ret(self, "Validation", <<invalid - 1>>)
          ELSE IF ~HasTable(self, schema) THEN Ret(self, "Sql", <<>>)
          ELSE IF done.err # "ok"
               THEN Ret(dropped_transaction(self, WithTable(self, schema, done.table)),
                        done.err, <<>>)
          ELSE Ret(WithTable(self, schema, done.table), "ok", <<done.affected>>)

\* instance.rs: FilterRequest and SimpleFilter (options are sequences of length
\* at most one; filters is a function from key to value)
FilterRequest(offset, limit, condition, sort_by, sort_order) ==
    [offset |-> offset, limit |-> limit, condition |-> condition,
     sort_by |-> sort_by, sort_order |-> sort_order]

SimpleFilter(schema_name, filters, limit, offset) ==
    [schema_name |-> schema_name, filters |-> filters, limit |-> limit, offset |-> offset]

\* keys: the order in which the HashMap yields the filters
to_filter_request(filter, keys) ==
    LET conditions == [i \in DOMAIN keys |->
                          condition_to_value(
                              Condition(OP_EQ, <<JStr(keys[i]), filter.filters[keys[i]]>>))]
        condition == IF keys = <<>> THEN <<>>
                     ELSE IF Len(keys) = 1
                          THEN <<Condition(OP_EQ, <<JStr(keys[1]), filter.filters[keys[1]]>>)>>
                     ELSE <<Condition(OP_AND, conditions)>>
    IN  FilterRequest(filter.offset, filter.limit, condition, <<>>, <<>>)

\* The select list: the enabled auto columns unquoted, then the user columns quoted
select_list(cfg, schema) ==
    (IF cfg.auto_columns.id THEN << <<T("id")>> >> ELSE <<>>)
    \o (IF cfg.auto_columns.created_at THEN << <<T("created_at")>> >> ELSE <<>>)
    \o (IF cfg.auto_columns.updated_at THEN << <<T("updated_at")>> >> ELSE <<>>)
    \o [i \in DOMAIN schema.columns |-> <<quoted(schema.columns[i].name)>>]

\* (where_clause, params): the compiled condition from offset 1, or TRUE
compiled_where(filter) ==
    IF filter.condition = <<>> THEN CcOk(<<T("TRUE")>>, <<>>, 1)
    ELSE build_condition_clause(filter.condition[1], 1)

\* let base_where = format!("deleted = FALSE AND ({})") or format!("({})")
base_where_text(cfg, where_clause) ==
    (IF cfg.soft_delete THEN <<T("deleted = FALSE AND (")>> ELSE <<T("(")>>)
    \o where_clause \o <<T(")")>>

\* The binds of the condition's parameters, each as a string
where_binds(params) == [i \in DOMAIN params |-> JStr(param_str(params[i]))]

Query(text, binds) == [text |-> text, binds |-> binds]

\* SELECT COUNT(*) FROM table WHERE base_where, and its binds
count_query(cfg, schema, filter) ==
    LET compiled == compiled_where(filter)
    IN  Query(<<T("SELECT COUNT(*) FROM "), quoted(schema.table_name), T(" WHERE ")>>
              \o base_where_text(cfg, compiled.clause),
              where_binds(compiled.params))

\* SELECT columns FROM table WHERE base_where ORDER BY order LIMIT $k OFFSET $k+1,
\* and its binds
select_query(cfg, schema, filter) ==
    LET compiled == compiled_where(filter)
        order_by == build_order_by_clause(filter.sort_by, filter.sort_order, schema)
    IN  Query(<<T("SELECT ")>> \o Join(select_list(cfg, schema), <<T(", ")>>)
              \o <<T(" FROM "), quoted(schema.table_name), T(" WHERE ")>>
              \o base_where_text(cfg, compiled.clause)
              \o <<T(" ORDER BY ")>> \o order_by.clause
              \o <<T(" LIMIT "), TPh(Len(compiled.params) + 1),
                   T(" OFFSET "), TPh(Len(compiled.params) + 2)>>,
              where_binds(compiled.params) \o <<JInt(filter.limit), JInt(filter.offset)>>)

\* The value is the set of results PostgreSQL may return (rows that tie in the
\* order may come in any order).
filter_instances_internal(self, schema, filter) ==
    LET compiled == IF filter.condition = <<>> THEN CcOk(<<T("TRUE")>>, <<>>, 1)
                    ELSE build_condition_clause(filter.condition[1], 1)
        order_by == build_order_by_clause(filter.sort_by, filter.sort_order, schema)
        table == self.tables[schema.table_name]
        w == base_where(self.config, filter.condition)
        chosen == Matching(table, w)
    IN  IF ~compiled.ok THEN Ret(self, "InvalidCondition", {})
        ELSE IF ~order_by.ok THEN Ret(self, "Validation", {})
        ELSE IF \/ ~HasTable(self, schema)
                \/ ~where_ok(table, w)
                \/ ~(select_columns(self.config, schema) \subseteq ColumnNames(table.columns))
                \/ \E i \in DOMAIN order_by.keys :
                       order_by.keys[i].field \notin ColumnNames(table.columns)
                \/ filter.limit < 0 \/ filter.offset < 0
             THEN Ret(self, "Sql", {})
        ELSE Ret(self, "ok",
                 { [instances |->
                       [i \in DOMAIN Page(q, filter.limit, filter.offset) |->
                           row_to_instance(self.config,
                               table.rows[Page(q, filter.limit, filter.offset)[i]], schema)],
                    total_count |-> Cardinality(chosen)] :
                   q \in Orderings(table.rows, chosen, order_by.keys) })

query_instances(self, filter, keys) ==
    IF get_schema(self, filter.schema_name) = <<>> THEN Ret(self, "SchemaNotFound", {})
    ELSE filter_instances_internal(self, get_schema(self, filter.schema_name)[1],
                                   to_filter_request(filter, keys))

filter_instances(self, schema_name, filter) ==
    IF get_schema(self, schema_name) = <<>> THEN Ret(self, "SchemaNotFound", {})
    ELSE filter_instances_internal(self, get_schema(self, schema_name)[1], filter)

\* filter.limit = 1; instances.into_iter().next()
instance_exists(self, filter, keys) ==
    LET found == query_instances(self, [filter EXCEPT !.limit = 1], keys)
    IN  Ret(self, found.err,
            { IF v.instances = <<>> THEN <<>> ELSE <<v.instances[1]>> : v \in found.val })

\* ------------------------------------------------------------------------
\* The store as a state machine: schema operations
\* ------------------------------------------------------------------------

MaxSchemaClock == 4

Self == ObjectStore(config, meta, tables, clock)

NoInput == [fn |-> "idle"]

\* A call returns: the database is as the call left it, res is what it returned.
Returns(limit, op, args, r) ==
    \E done \in {r} :
        /\ done.self.clock <= limit
        /\ meta' = done.self.meta
        /\ tables' = done.self.tables
        /\ clock' = done.self.clock
        /\ res' = [op |-> op, args |-> args, err |-> done.err, val |-> done.val]
        /\ UNCHANGED <<config, pin, pout, calls>>

S1 == <<"s","1">>

S2 == <<"s","2">>

T1 == <<"t","1">>

T2 == <<"t","2">>

T_select == <<"s","e","l","e","c","t">>

N_n == <<"n">>

Col_n == not_null(ColumnDefinition_new(N_n, CT("Integer")))

Col_id == ColumnDefinition_new(N_id, CT("String"))

Col_upper == ColumnDefinition_new(<<"A","-","b">>, CT("String"))

Ix_a == IndexDefinition(<<"b","y","_","a">>, <<N_a>>, FALSE)

Ix_missing == IndexDefinition(<<"b","y","_","z">>, <<<<"z">>>>, FALSE)

CreateSchemaRequests ==
    { CreateSchemaRequest(S1, T1, <<Col_a, Col_n>>, <<>>),
      CreateSchemaRequest(S2, T2, <<Col_a, Col_e>>, <<<<Ix_a>>>>),
      CreateSchemaRequest(S2, T1, <<Col_a>>, <<>>),
      CreateSchemaRequest(S1, T2, <<Col_a>>, <<>>),
      CreateSchemaRequest(S2, T_select, <<Col_a>>, <<>>),
      CreateSchemaRequest(S2, T2, <<Col_id>>, <<>>),
      CreateSchemaRequest(S2, T2, <<Col_a, Col_upper>>, <<>>),
      CreateSchemaRequest(S2, T2, <<Col_a>>, <<<<Ix_missing>>>>) }

UpdateSchemaRequests ==
    { UpdateSchemaRequest(<<>>, <<>>, <<>>),
      UpdateSchemaRequest(<<S2>>, <<>>, <<>>),
      UpdateSchemaRequest(<<>>, <<<<Col_a, Col_n, Col_b>>>>, <<>>),
      UpdateSchemaRequest(<<>>, <<<<Col_a>>>>, <<<<Ix_a>>>>),
      UpdateSchemaRequest(<<>>, <<<<Col_a_int, Col_n>>>>, <<>>) }

SchemaNames == {S1, S2}

SchemaInit ==
    /\ config \in Configs
    /\ meta = {}
    /\ tables = NoMembers
    /\ clock = 1
    /\ res = NoResult
    /\ calls = NoCalls
    /\ pin = NoInput
    /\ pout = NotRun

CreateSchema ==
    \E request \in CreateSchemaRequests :
        Returns(MaxSchemaClock, "create_schema", request, create_schema(Self, request))

UpdateSchema ==
    \E name \in SchemaNames, request \in UpdateSchemaRequests :
        Returns(MaxSchemaClock, "update_schema", [name |-> name, request |-> request],
                update_schema(Self, name, request))

DeleteSchema ==
    \E name \in SchemaNames :
        Returns(MaxSchemaClock, "delete_schema", [name |-> name], delete_schema(Self, name))

GetSchema ==
    \E name \in SchemaNames :
        Returns(MaxSchemaClock, "get_schema", [name |-> name], Ret(Self, "ok", get_schema(Self, name)))

ListSchemas ==
    \E listed \in list_schemas(Self) :
        Returns(MaxSchemaClock, "list_schemas", [all |-> TRUE], Ret(Self, "ok", listed))

SchemaNext ==
    \/ CreateSchema
    \/ UpdateSchema
    \/ DeleteSchema
    \/ GetSchema
    \/ ListSchemas

Spec == SchemaInit /\ [][SchemaNext]_vars

\* ------------------------------------------------------------------------
\* Properties of the schema operations
\* ------------------------------------------------------------------------

LiveMetadata == { m \in meta : ~m.deleted }

UserColumnNames(table) ==
    { table.columns[i].name : i \in { j \in DOMAIN table.columns : ~table.columns[j].auto } }

\* C2: after any sequence of create_schema, update_schema and delete_schema
\* calls, also ones in which a DDL statement fails part-way, every metadata row
\* that is not soft-deleted has exactly one physical data table, and the user
\* columns of that table are the columns the metadata row records.
C2_MetadataMatchesTables ==
    \A m \in LiveMetadata :
        /\ m.table_name \in DOMAIN tables
        /\ UserColumnNames(tables[m.table_name]) = ColumnNames(m.columns)
        /\ \A other \in LiveMetadata : other.table_name = m.table_name => other = m

LiveDuplicate(request) ==
    \E m \in LiveMetadata : m.name = request.name \/ m.table_name = request.table_name

\* reserved_columns: the names of the auto-managed columns that are enabled
EnabledAutoColumns ==
    (IF config.auto_columns.id THEN {N_id} ELSE {})
    \cup (IF config.auto_columns.created_at THEN {N_created_at} ELSE {})
    \cup (IF config.auto_columns.updated_at THEN {N_updated_at} ELSE {})
    \cup (IF config.soft_delete THEN {N_deleted} ELSE {})

IdentifiersValid(request) ==
    /\ validate_identifier(request.table_name, {})
    /\ \A i \in DOMAIN request.columns :
           validate_identifier(request.columns[i].name, EnabledAutoColumns)

\* A request that nothing but a duplicate can make fail: valid identifiers,
\* distinct columns, indexes over its own columns.
WellFormed(request) ==
    /\ IdentifiersValid(request)
    /\ \A i, j \in DOMAIN request.columns :
           i # j => request.columns[i].name # request.columns[j].name
    /\ request.indexes # <<>> =>
           \A i \in DOMAIN request.indexes[1] :
               Range(request.indexes[1][i].columns) \subseteq ColumnNames(request.columns)

\* C3: in soft-delete mode create_schema fails with Conflict exactly when a
\* schema that is not deleted has the same name or the same table_name; a name
\* or table_name that only soft-deleted schemas hold does not make it fail; and
\* a duplicate of a live schema yields Conflict with no metadata row or table
\* created.
C3_ConflictIffLiveDuplicate ==
    [][(res'.op = "create_schema" /\ config.soft_delete) =>
          /\ (res'.err = "Conflict") <=> LiveDuplicate(res'.args)
          /\ LiveDuplicate(res'.args) => (meta' = meta /\ tables' = tables)
          /\ (/\ ~LiveDuplicate(res'.args)
              /\ WellFormed(res'.args)
              /\ res'.args.table_name \notin DOMAIN tables
              /\ config.auto_columns.created_at) => res'.err = "ok"]_vars

\* C7: create_schema rejects with a Validation error, before it inserts a
\* metadata row or runs any DDL, every request whose table_name or one of whose
\* column names fails validate_identifier (no match of ^[a-z][a-z0-9_]*$, a
\* reserved keyword, or the name of an enabled auto-managed column).
C7_InvalidIdentifiersRejected ==
    [][(res'.op = "create_schema" /\ ~IdentifiersValid(res'.args)) =>
          /\ res'.err \in {"Validation", "Conflict"}
          /\ ~LiveDuplicate(res'.args) => res'.err = "Validation"
          /\ meta' = meta
          /\ tables' = tables]_vars

\* ------------------------------------------------------------------------
\* The store as a state machine: instance operations on one schema
\* ------------------------------------------------------------------------

MaxClock == 5

N_k == <<"k">>

Col_k == with_unique(ColumnDefinition_new(N_k, CT("String")))

\* A unique index over both columns: a conflict target that names every column
Ix_kn == IndexDefinition(<<"k","n">>, <<N_k, N_n>>, TRUE)

InstanceSchema == CreateSchemaRequest(S1, T1, <<Col_k, Col_n>>, <<<<Ix_kn>>>>)

Obj1(n1, v1) == JObj([x \in {n1} |-> v1])

Obj2(n1, v1, n2, v2) == JObj([x \in {n1, n2} |-> IF x = n1 THEN v1 ELSE v2])

P_x1 == Obj2(N_k, JStr(<<"x">>), N_n, JInt(1))

P_y2 == Obj2(N_k, JStr(<<"y">>), N_n, JStr(<<"2">>))

P_n1 == Obj1(N_n, JInt(1))

P_bad == Obj2(N_k, JStr(<<"z">>), N_n, JStr(<<"q">>))

P_z == Obj1(N_k, JStr(<<"z">>))

P_null == Obj2(N_k, JStr(<<"z">>), N_n, JNull)

P_other == Obj1(<<"z","z">>, JInt(1))

P_text == JStr(<<"x">>)

Properties == {P_x1, P_y2, P_n1, P_bad, P_z, P_text}

UpdateProperties == {P_z, P_bad, P_other, P_text, P_null}

\* The configurations of the instance runs: the default one, hard delete, no id
\* column, no updated_at column, no created_at column.
InstanceConfigs ==
    { DefaultConfig,
      StoreConfig(FALSE, TRUE, TRUE, TRUE),
      StoreConfig(TRUE, FALSE, TRUE, TRUE),
      StoreConfig(TRUE, TRUE, TRUE, FALSE),
      StoreConfig(FALSE, TRUE, FALSE, TRUE) }

InstanceInit ==
    /\ config \in InstanceConfigs
    /\ meta = {}
    /\ tables = NoMembers
    /\ clock = 1
    /\ res = NoResult
    /\ calls = NoCalls
    /\ pin = NoInput
    /\ pout = NotRun

InstanceLists ==
    { <<>>, <<P_x1, P_y2>>, <<P_x1, P_x1>>, <<P_x1, P_bad>>, <<P_x1, P_null>>, <<P_text>> }

ConflictColumns == { <<>>, <<N_k>>, <<N_k, N_n>>, <<<<"z","z">>>> }

C_n1 == Condition(OP_EQ, <<JStr(N_n), JInt(1)>>)

C_kx == Condition(OP_EQ, <<JStr(N_k), JStr(<<"x">>)>>)

C_unknown == Condition(<<"X">>, <<JStr(N_k), JStr(<<"x">>)>>)

Conditions == {C_n1, C_unknown}

FilterRequests ==
    { FilterRequest(0, 10, <<>>, <<>>, <<>>),
      FilterRequest(0, 1, <<C_n1>>, <<>>, <<>>),
      FilterRequest(1, 10, <<C_n1>>, <<<<N_k>>>>, <<<<S_DESC>>>>),
      FilterRequest(0, 10, <<C_unknown>>, <<>>, <<>>) }

SimpleFilters ==
    { SimpleFilter(S1, NoMembers, 10, 0),
      SimpleFilter(S1, [x \in {N_n} |-> JInt(1)], 10, 0),
      SimpleFilter(S1, [x \in {N_k, N_n} |-> IF x = N_k THEN JStr(<<"x">>) ELSE JInt(1)], 1, 0) }

\* The orders in which a HashMap may yield its keys
KeyOrders(filters) ==
    { s \in SeqsUpTo(DOMAIN filters, Cardinality(DOMAIN filters)) :
        Len(s) = Cardinality(DOMAIN filters) /\ Range(s) = DOMAIN filters }

MissingId == <<"u","0","-","0">>

\* The ids a caller may pass: the ids of the rows, the id of the last call, and
\* an id no call returned.
RowIds(table) ==
    { table.rows[i][N_id].c :
        i \in { j \in DOMAIN table.rows :
                  N_id \in DOMAIN table.rows[j] /\ table.rows[j][N_id].t = "str" } }

CallerIds ==
    {MissingId}
    \cup UNION { RowIds(tables[t]) : t \in DOMAIN tables }
    \cup (IF res.op \in {"delete_instance", "update_instance"} THEN {res.args.instance_id}
          ELSE {})
    \cup (IF res.op = "create_instance" /\ res.err = "ok" THEN {res.val[1]} ELSE {})

CreateInstanceSchema ==
    Returns(MaxClock, "create_schema", InstanceSchema, create_schema(Self, InstanceSchema))

CreateInstance ==
    \E properties \in Properties :
        Returns(MaxClock, "create_instance", [schema_name |-> S1, properties |-> properties],
                create_instance(Self, S1, properties))

GetInstance ==
    \E instance_id \in CallerIds :
        Returns(MaxClock, "get_instance", [schema_name |-> S1, instance_id |-> instance_id],
                get_instance(Self, S1, instance_id))

UpdateInstance ==
    \E instance_id \in CallerIds, properties \in UpdateProperties :
        Returns(MaxClock, "update_instance",
                [schema_name |-> S1, instance_id |-> instance_id, properties |-> properties],
                update_instance(Self, S1, instance_id, properties))

DeleteInstance ==
    \E instance_id \in CallerIds :
        Returns(MaxClock, "delete_instance", [schema_name |-> S1, instance_id |-> instance_id],
                delete_instance(Self, S1, instance_id))

UpdateInstances ==
    \E properties \in UpdateProperties, condition \in Conditions :
        Returns(MaxClock, "update_instances",
                [schema_name |-> S1, properties |-> properties, condition |-> condition],
                update_instances(Self, S1, properties, condition))

DeleteInstances ==
    \E condition \in Conditions :
        Returns(MaxClock, "delete_instances", [schema_name |-> S1, condition |-> condition],
                delete_instances(Self, S1, condition))

CreateInstances ==
    \E instances \in InstanceLists :
        Returns(MaxClock, "create_instances", [schema_name |-> S1, instances |-> instances],
                create_instances(Self, S1, instances))

UpsertInstances ==
    \E instances \in InstanceLists, conflict_columns \in ConflictColumns :
        Returns(MaxClock, "upsert_instances",
                [schema_name |-> S1, instances |-> instances,
                 conflict_columns |-> conflict_columns],
                upsert_instances(Self, S1, instances, conflict_columns))

\* A query returns one of the results PostgreSQL may produce.
Answers(found) == IF found.err = "ok" THEN found.val ELSE {<<>>}

QueryInstances ==
    \E filter \in SimpleFilters :
        \E keys \in KeyOrders(filter.filters) :
            \E found \in {query_instances(Self, filter, keys)} :
                \E answer \in Answers(found) :
                    Returns(MaxClock, "query_instances", [filter |-> filter, keys |-> keys],
                            Ret(Self, found.err, answer))

FilterInstances ==
    \E filter \in FilterRequests :
        \E found \in {filter_instances(Self, S1, filter)} :
            \E answer \in Answers(found) :
                Returns(MaxClock, "filter_instances", [schema_name |-> S1, filter |-> filter],
                        Ret(Self, found.err, answer))

InstanceExists ==
    \E filter \in SimpleFilters :
        \E keys \in KeyOrders(filter.filters) :
            \E found \in {instance_exists(Self, filter, keys)} :
                \E answer \in Answers(found) :
                    Returns(MaxClock, "instance_exists", [filter |-> filter, keys |-> keys],
                            Ret(Self, found.err, answer))

InstanceNext ==
    \/ CreateInstanceSchema
    \/ CreateInstance
    \/ GetInstance
    \/ UpdateInstance
    \/ DeleteInstance
    \/ UpdateInstances
    \/ DeleteInstances
    \/ QueryInstances
    \/ FilterInstances
    \/ InstanceExists

SpecInstances == InstanceInit /\ [][InstanceNext]_vars

BulkNext ==
    \/ CreateInstanceSchema
    \/ CreateInstances
    \/ UpsertInstances
    \/ FilterInstances

SpecBulk == InstanceInit /\ [][BulkNext]_vars

\* ------------------------------------------------------------------------
\* Properties of the instance operations
\* ------------------------------------------------------------------------

DeletedRow(row) == N_deleted \in DOMAIN row /\ row[N_deleted] = JBool(TRUE)

RowsOf(tbls, table_name) == IF table_name \in DOMAIN tbls THEN tbls[table_name].rows ELSE <<>>

CondHolds(condition, row) == condition = <<>> \/ eval_condition(condition[1], row) = "T"

ReadOps == {"get_instance", "query_instances", "filter_instances", "instance_exists"}

\* The instances the read r returned
ReturnedInstances(r) ==
    IF r.op \in {"get_instance", "instance_exists"} THEN Range(r.val)
    ELSE IF r.op \in {"query_instances", "filter_instances"} /\ r.err = "ok"
         THEN Range(r.val.instances)
    ELSE {}

\* The condition the query r asked for
AskedCondition(r) ==
    IF r.op = "filter_instances" THEN r.args.filter.condition
    ELSE to_filter_request(r.args.filter, r.args.keys).condition

\* What the read r returned, against the rows of the table it read
ReadsHideDeleted(r) ==
    (config.soft_delete /\ r.op \in ReadOps /\ get_schema(Self, S1) # <<>>) =>
        LET rows == RowsOf(tables, T1)
            live == { i \in DOMAIN rows : ~DeletedRow(rows[i]) }
        IN  /\ \A inst \in ReturnedInstances(r) :
                /\ \E i \in live :
                       row_to_instance(config, rows[i], get_schema(Self, S1)[1]) = inst
                /\ config.auto_columns.id =>
                       \A i \in DOMAIN rows :
                           DeletedRow(rows[i]) => rows[i][N_id] # JStr(inst.id)
            /\ (r.op \in {"query_instances", "filter_instances"} /\ r.err = "ok") =>
                   r.val.total_count =
                       Cardinality({ i \in live : CondHolds(AskedCondition(r), rows[i]) })

WritesSkipDeleted ==
    (config.soft_delete /\ res'.op \in {"update_instance", "update_instances",
                                         "delete_instance", "delete_instances"}) =>
        \A i \in DOMAIN RowsOf(tables, T1) :
            DeletedRow(RowsOf(tables, T1)[i]) =>
                /\ i \in DOMAIN RowsOf(tables', T1)
                /\ RowsOf(tables', T1)[i] = RowsOf(tables, T1)[i]

\* C1: in a soft-delete store a row whose deleted flag is TRUE is never
\* returned by get_instance, query_instances, filter_instances or
\* instance_exists, is not counted in total_count, and is never modified by
\* update_instance, update_instances, delete_instance or delete_instances.
C1_DeletedRowsInvisible ==
    [][/\ WritesSkipDeleted
       /\ res'.op \in ReadOps => tables' = tables
       /\ ReadsHideDeleted(res')]_vars

\* A filter answered with a live row while a deleted row satisfies its condition.
C1_Witness ==
    /\ config.soft_delete
    /\ res.op = "filter_instances"
    /\ res.err = "ok"
    /\ res.val.instances # <<>>
    /\ \E i \in DOMAIN RowsOf(tables, T1) :
           /\ DeletedRow(RowsOf(tables, T1)[i])
           /\ CondHolds(res.args.filter.condition, RowsOf(tables, T1)[i])

\* The pre-validation of one row of a bulk call; strict is create_instances,
\* which also refuses NULL for, and the absence of, a required column.
\* The value a property stands for in its column: an Integer given as a string
\* of digits is that number.
given_value(ct, v) ==
    IF ct.kind = "Integer" /\ v.t = "str" THEN JInt(parse_i64(v.c)) ELSE v

RowInvalid(columns, inst, strict) ==
    \/ inst.t # "obj"
    \/ \E i \in DOMAIN columns :
           LET col == columns[i]
           IN  IF col.name \in DOMAIN inst.o
               THEN \/ ~validate_value(col.column_type, inst.o[col.name])
                    \/ strict /\ ~col.nullable /\ is_null(inst.o[col.name])
               ELSE strict /\ ~col.nullable /\ ~col.has_default

\* The bulk call reached its validation loop.
BulkValidates ==
    /\ get_schema(Self, S1) # <<>>
    /\ res'.op = "upsert_instances" =>
           /\ res'.args.conflict_columns # <<>>
           /\ \A c \in Range(res'.args.conflict_columns) :
                  c = N_id \/ HasColumn(get_schema(Self, S1)[1].columns, c)

\* C8: create_instances and upsert_instances are all-or-nothing. If a row
\* fails validation no statement runs and the error names the index of a
\* failing row; if the statement of a chunk fails the transaction is rolled
\* back; in both cases the table holds none of the rows of the call. On
\* success the rows of all chunks are in the table.
C8_BulkAllOrNothing ==
    [][res'.op \in {"create_instances", "upsert_instances"} =>
          LET instances == res'.args.instances
              strict == res'.op = "create_instances"
          IN  /\ res'.err # "ok" => (tables' = tables /\ meta' = meta)
              /\ (res'.err = "ok" /\ strict) =>
                     Len(RowsOf(tables', T1)) = Len(RowsOf(tables, T1)) + Len(instances)
              /\ (res'.err = "ok" /\ ~strict) =>
                     \A i \in DOMAIN instances :
                         \E j \in DOMAIN RowsOf(tables', T1) :
                             \A c \in Range(res'.args.conflict_columns) :
                                 c \in DOMAIN instances[i].o =>
                                     RowsOf(tables', T1)[j][c] =
                                         given_value(ColumnOf(tables'[T1], c).column_type,
                                                     instances[i].o[c])
              /\ (/\ BulkValidates
                  /\ \E i \in DOMAIN instances :
                         RowInvalid(get_schema(Self, S1)[1].columns, instances[i], strict)) =>
                     /\ res'.err = "Validation"
                     /\ res'.val # <<>>
                     /\ res'.val[1] + 1 \in DOMAIN instances
                     /\ RowInvalid(get_schema(Self, S1)[1].columns,
                                   instances[res'.val[1] + 1], strict)]_vars

\* A call of two chunks whose second statement failed on the unique column:
\* the row of the first chunk is not in the table.
C8_Witness ==
    /\ res.op = "create_instances"
    /\ res.err = "Sql"
    /\ res.args.instances = <<P_x1, P_x1>>
    /\ T1 \in DOMAIN tables
    /\ chunk_size(get_schema(Self, S1)[1]) = 1
    /\ \A i \in DOMAIN tables[T1].rows : tables[T1].rows[i][N_k] # JStr(<<"x">>)

\* C9: for every configuration, when create_instance(schema, props) returns an
\* id, get_instance(schema, id) returns an instance with that id whose
\* properties hold every validated non-null value of props.
C9_CreatedInstanceIsReturned ==
    (res.op = "create_instance" /\ res.err = "ok") =>
        LET got == get_instance(Self, S1, res.val[1])
            columns == get_schema(Self, S1)[1].columns
            props == res.args.properties.o
        IN  /\ got.err = "ok"
            /\ got.val # <<>>
            /\ got.val[1].id = res.val[1]
            /\ \A n \in DOMAIN props :
                   (HasColumn(columns, n) /\ ~is_null(props[n])) =>
                       /\ n \in DOMAIN got.val[1].properties
                       /\ got.val[1].properties[n] =
                              given_value(FindColumn(columns, n).column_type, props[n])

VisibleRow(instance_id) ==
    \E i \in DOMAIN RowsOf(tables, T1) :
        /\ N_id \in DOMAIN RowsOf(tables, T1)[i]
        /\ RowsOf(tables, T1)[i][N_id] = JStr(instance_id)
        /\ ~DeletedRow(RowsOf(tables, T1)[i])

\* An update or delete by id of a schema that exists, where no visible row has
\* the id.
TargetsNoVisibleRow ==
    /\ res'.op \in {"update_instance", "delete_instance"}
    /\ get_schema(Self, S1) # <<>>
    /\ ~VisibleRow(res'.args.instance_id)

\* C10 as stated: update_instance and delete_instance that target an id for
\* which no visible row exists return InstanceNotFound and leave the table
\* unchanged.
C10_NoVisibleRowIsNotFound ==
    [][TargetsNoVisibleRow => (res'.err = "InstanceNotFound" /\ tables' = tables)]_vars

PropertiesInvalid(columns, properties) ==
    \/ properties.t # "obj"
    \/ \E i \in DOMAIN columns :
           /\ columns[i].name \in DOMAIN properties.o
           /\ ~validate_value(columns[i].column_type, properties.o[columns[i].name])

NamesNoColumn(columns, properties) ==
    \A i \in DOMAIN columns : columns[i].name \notin DOMAIN properties.o

\* WHERE id = $1 can run: the data table exists and has the id column.
IdStatementRuns == T1 \in DOMAIN tables /\ N_id \in ColumnNames(tables[T1].columns)

ExpectedWithoutRow ==
    LET columns == get_schema(Self, S1)[1].columns
        update == res'.op = "update_instance"
    IN  IF update /\ PropertiesInvalid(columns, res'.args.properties) THEN "Validation"
        ELSE IF update /\ NamesNoColumn(columns, res'.args.properties) THEN "ok"
        ELSE IF ~IdStatementRuns THEN "Sql"
        ELSE "InstanceNotFound"

\* C10, amended: update_instance and delete_instance that target an id for
\* which no visible row exists leave every table unchanged. delete_instance
\* returns InstanceNotFound. update_instance returns a Validation error when
\* the properties are not an object or a present property fails validation,
\* returns success without running SQL when the properties name no column of
\* the schema, and returns InstanceNotFound otherwise. Where the data table has
\* no id column the statement fails and the call returns a database error in
\* place of InstanceNotFound.
C10_NoVisibleRowLeavesTable ==
    [][TargetsNoVisibleRow =>
          /\ tables' = tables
          /\ meta' = meta
          /\ res'.err = ExpectedWithoutRow]_vars

\* A second delete_instance of an id whose row is already soft-deleted.
C10_Witness ==
    /\ res.op = "delete_instance"
    /\ res.err = "InstanceNotFound"
    /\ \E i \in DOMAIN RowsOf(tables, T1) :
           /\ DeletedRow(RowsOf(tables, T1)[i])
           /\ RowsOf(tables, T1)[i][N_id] = JStr(res.args.instance_id)

\* ------------------------------------------------------------------------
\* Concurrent create_schema calls: every statement a call awaits is one step
\* ------------------------------------------------------------------------

Procs == {1, 2}

ConcurrentRequests ==
    { CreateSchemaRequest(S1, T1, <<Col_a>>, <<<<Ix_a>>>>),
      CreateSchemaRequest(S1, T2, <<Col_a>>, <<>>) }

Call(pc, request, err, i) == [pc |-> pc, request |-> request, err |-> err, i |-> i]

ConcurrentInit ==
    /\ config \in InstanceConfigs
    /\ meta = {}
    /\ tables = NoMembers
    /\ clock = 1
    /\ res = NoResult
    /\ pin = NoInput
    /\ pout = NotRun
    /\ calls \in [Procs -> { Call("get_schema", r, "running", 1) : r \in ConcurrentRequests }]

Finish(p, err) == calls' = [calls EXCEPT ![p].pc = "done", ![p].err = err]

Goto(p, pc) == calls' = [calls EXCEPT ![p].pc = pc]

UserIndexes(request) == IF request.indexes = <<>> THEN <<>> ELSE request.indexes[1]

\* if self.get_schema(&request.name).await?.is_some()
StepGetSchema(p) ==
    /\ calls[p].pc = "get_schema"
    /\ IF get_schema(Self, calls[p].request.name) # <<>> THEN Finish(p, "Conflict")
       ELSE Goto(p, "schema_by_table")
    /\ UNCHANGED <<config, meta, tables, clock, res, pin, pout>>

\* if self.schema_by_table(&request.table_name).await?.is_some()
StepSchemaByTable(p) ==
    /\ calls[p].pc = "schema_by_table"
    /\ IF schema_by_table(Self, calls[p].request.table_name) # <<>> THEN Finish(p, "Conflict")
       ELSE Goto(p, "insert")
    /\ UNCHANGED <<config, meta, tables, clock, res, pin, pout>>

\* INSERT INTO metadata ... RETURNING created_at, updated_at
StepInsert(p) ==
    LET request == calls[p].request
        row == [id |-> new_uuid(clock, p), name |-> request.name,
                table_name |-> request.table_name, columns |-> request.columns,
                indexes |-> request.indexes, created_at |-> clock,
                updated_at |-> clock, deleted |-> FALSE]
    IN  /\ calls[p].pc = "insert"
        /\ IF metadata_insert_ok(meta, row)
           THEN /\ meta' = meta \cup {row}
                /\ clock' = clock + 1
                /\ Goto(p, "create_table")
           ELSE /\ UNCHANGED <<meta, clock>>
                /\ Finish(p, "Sql")
        /\ UNCHANGED <<config, tables, res, pin, pout>>

\* sqlx::query(&create_table_sql).execute(&self.pool).await?
StepCreateTable(p) ==
    LET request == calls[p].request
        defs == create_table_column_defs(config, request.columns)
    IN  /\ calls[p].pc = "create_table"
        /\ IF pg_create_table_ok(tables, request.table_name, defs)
           THEN /\ tables' = pg_create_table(tables, request.table_name, defs)
                /\ Goto(p, "default_index")
           ELSE /\ UNCHANGED tables
                /\ Finish(p, "Sql")
        /\ UNCHANGED <<config, meta, clock, res, pin, pout>>

\* sqlx::query(&default_index_sql).execute(&self.pool).await?
StepDefaultIndex(p) ==
    LET request == calls[p].request
    IN  /\ calls[p].pc = "default_index"
        /\ IF pg_create_index_ok(tables, request.table_name,
                                 default_index_name(request.table_name),
                                 default_index_refs(config))
           THEN /\ tables' = pg_create_index(tables, request.table_name,
                                             default_index_name(request.table_name),
                                             {N_created_at}, FALSE)
                /\ Goto(p, "create_index")
           ELSE /\ UNCHANGED tables
                /\ Finish(p, "Sql")
        /\ UNCHANGED <<config, meta, clock, res, pin, pout>>

\* for index in indexes: sqlx::query(&index_sql).execute(&self.pool).await?
StepCreateIndex(p) ==
    LET request == calls[p].request
        index == UserIndexes(request)[calls[p].i]
        index_name == request.table_name \o <<"_">> \o index.name
        refs == { quote_identifier(index.columns[j]) : j \in DOMAIN index.columns }
    IN  /\ calls[p].pc = "create_index"
        /\ calls[p].i <= Len(UserIndexes(request))
        /\ IF pg_create_index_ok(tables, request.table_name, index_name, refs)
           THEN /\ tables' = pg_create_index(tables, request.table_name, index_name,
                                             Range(index.columns), index.unique)
                /\ calls' = [calls EXCEPT ![p].i = @ + 1]
           ELSE /\ UNCHANGED tables
                /\ Finish(p, "Sql")
        /\ UNCHANGED <<config, meta, clock, res, pin, pout>>

\* Ok(Schema { .. })
StepReturn(p) ==
    /\ calls[p].pc = "create_index"
    /\ calls[p].i > Len(UserIndexes(calls[p].request))
    /\ Finish(p, "ok")
    /\ UNCHANGED <<config, meta, tables, clock, res, pin, pout>>

ConcurrentNext ==
    \E p \in Procs :
        \/ StepGetSchema(p)
        \/ StepSchemaByTable(p)
        \/ StepInsert(p)
        \/ StepCreateTable(p)
        \/ StepDefaultIndex(p)
        \/ StepCreateIndex(p)
        \/ StepReturn(p)

SpecConcurrent == ConcurrentInit /\ [][ConcurrentNext]_vars

\* C4: when two create_schema calls with the same name run concurrently, in
\* every interleaving exactly one call succeeds, the other returns Conflict
\* (never a raw database error), and exactly one metadata row has the name.
C4_OneWinsOtherConflicts ==
    (/\ config.auto_columns.created_at
     /\ \A p \in Procs : calls[p].pc = "done") =>
        /\ \E p \in Procs :
               /\ calls[p].err = "ok"
               /\ \A q \in Procs \ {p} : calls[q].err = "Conflict"
        /\ Cardinality({ m \in meta : m.name = S1 }) = 1


\* ------------------------------------------------------------------------
\* Properties of update, validation and upsert
\* ------------------------------------------------------------------------

\* An update of a schema that exists whose properties are a JSON object that
\* names no column of the schema.
UpdateNamesNoColumn ==
    /\ res'.op \in {"update_instance", "update_instances"}
    /\ get_schema(Self, S1) # <<>>
    /\ res'.args.properties.t = "obj"
    /\ NamesNoColumn(get_schema(Self, S1)[1].columns, res'.args.properties)

\* C11: update_instance whose properties object names no column of the schema
\* returns success without executing a statement, so no row (its updated_at
\* included) changes; update_instances in the same situation returns 0 without
\* executing a statement.
C11_NothingToUpdate ==
    [][UpdateNamesNoColumn =>
          /\ res'.err = "ok"
          /\ (res'.op = "update_instances" => res'.val = <<0>>)
          /\ tables' = tables
          /\ meta' = meta
          /\ clock' = clock]_vars

\* update_instance naming no column, by the id of a visible row of a table
\* with the updated_at column, has returned success.
C11_Witness ==
    /\ res.op = "update_instance"
    /\ res.args.properties = P_other
    /\ res.err = "ok"
    /\ config.auto_columns.updated_at
    /\ VisibleRow(res.args.instance_id)

\* The properties are an object holding a JSON null for a NOT NULL column.
NullForNotNull(columns, properties) ==
    /\ properties.t = "obj"
    /\ \E i \in DOMAIN columns :
           /\ columns[i].name \in DOMAIN properties.o
           /\ ~columns[i].nullable
           /\ is_null(properties.o[columns[i].name])

\* The properties are an object without a NOT NULL column that has no default.
OmitsRequired(columns, properties) ==
    /\ properties.t = "obj"
    /\ \E i \in DOMAIN columns :
           /\ columns[i].name \notin DOMAIN properties.o
           /\ ~columns[i].nullable
           /\ ~columns[i].has_default

\* A write on a schema that exists whose input breaks the nullable flag.
BreaksNullability ==
    LET columns == get_schema(Self, S1)[1].columns
        args == res'.args
    IN  /\ get_schema(Self, S1) # <<>>
        /\ \/ /\ res'.op \in {"create_instance", "update_instance", "update_instances"}
              /\ NullForNotNull(columns, args.properties)
           \/ /\ res'.op \in {"create_instances", "upsert_instances"}
              /\ \E i \in DOMAIN args.instances : NullForNotNull(columns, args.instances[i])
           \/ /\ res'.op = "create_instance"
              /\ OmitsRequired(columns, args.properties)
           \/ /\ res'.op = "create_instances"
              /\ \E i \in DOMAIN args.instances : OmitsRequired(columns, args.instances[i])

\* C12: create_instance, create_instances, update_instance, update_instances
\* and upsert_instances reject a JSON null supplied for a column declared
\* nullable = false with a Validation error before executing a statement, and
\* create_instance and create_instances also reject a row that omits a
\* non-nullable column having no default.
C12_NullabilityValidated ==
    [][BreaksNullability =>
          /\ res'.err = "Validation"
          /\ tables' = tables
          /\ clock' = clock]_vars

\* upsert_instances has passed its validation and sent its statement.
UpsertEmitted ==
    /\ res.op = "upsert_instances"
    /\ res.args.instances # <<>>
    /\ res.err \in {"ok", "Sql"}
    /\ get_schema(Self, S1) # <<>>

EveryColumnInConflictSet(schema, conflict_columns) ==
    \A i \in DOMAIN schema.columns : schema.columns[i].name \in Range(conflict_columns)

\* '<col> = EXCLUDED.<col>' for each schema column outside the conflict set,
\* then updated_at = NOW() when that auto column is enabled.
ExpectedUpdateSets(cfg, schema, conflict_columns) ==
    LET rest == SelectSeq(schema.columns, LAMBDA col : col.name \notin Range(conflict_columns))
    IN  [i \in DOMAIN rest |->
            <<quoted(rest[i].name), T(" = EXCLUDED."), quoted(rest[i].name)>>]
        \o (IF cfg.auto_columns.updated_at THEN <<<<T("updated_at = NOW()")>>>> ELSE <<>>)

ExpectedOnConflict(cfg, schema, conflict_columns) ==
    <<T(" ON CONFLICT (")>>
    \o Join([i \in DOMAIN conflict_columns |-> <<quoted(conflict_columns[i])>>], <<T(", ")>>)
    \o (IF EveryColumnInConflictSet(schema, conflict_columns)
        THEN <<T(") DO NOTHING")>>
        ELSE <<T(") DO UPDATE SET ")>>
             \o Join(ExpectedUpdateSets(cfg, schema, conflict_columns), <<T(", ")>>))

\* C13: upsert_instances emits ON CONFLICT (<conflict cols>) DO NOTHING exactly
\* when every schema column is in the conflict set, under every auto_columns
\* configuration; otherwise it emits DO UPDATE SET with one
\* '<col> = EXCLUDED.<col>' entry per non-conflict schema column, plus
\* updated_at = NOW() when that auto column is enabled.
C13_DoNothingIffAllConflict ==
    UpsertEmitted =>
        on_conflict_clause(config, get_schema(Self, S1)[1], res.args.conflict_columns)
            = ExpectedOnConflict(config, get_schema(Self, S1)[1], res.args.conflict_columns)

\* ------------------------------------------------------------------------
\* The chunking of the bulk inserts applied to schemas of every width
\* ------------------------------------------------------------------------

MaxRows == 5

\* Widths up to one column more than the parameter budget of a statement
MaxWidth == ParamLimit + 1

WideSchema(width) ==
    [name |-> S1, table_name |-> T1,
     columns |-> [i \in 1..width |->
                     ColumnDefinition_new(<<"c">> \o int_to_string(i), CT("String"))]]

\* Valid rows, each with its own value for the first column
NumberedRows(count) ==
    [i \in 1..count |-> Obj1(<<"c","1">>, JStr(<<"r">> \o int_to_string(i)))]

ChunkCalls ==
    { [fn |-> fn, schema |-> WideSchema(width), instances |-> NumberedRows(count)] :
        fn \in {"create_instances", "upsert_instances"},
        width \in 0..MaxWidth, count \in 0..MaxRows }

ChunkInit ==
    /\ \E id \in BOOLEAN : StoreInit(StoreConfig(TRUE, id, TRUE, TRUE))
    /\ pin \in ChunkCalls
    /\ pout = NotRun

\* The parameters each statement of the call binds, chunk by chunk and row by row
bound_chunks(self, schema, instances) ==
    chunks(ParamsOf(bulk_rows(self, schema, instances)), chunk_size(schema))

ApplyCreateInstancesChunks ==
    /\ pout = NotRun
    /\ pin.fn = "create_instances"
    /\ pout' = [fn |-> pin.fn, r |-> bound_chunks(Self, pin.schema, pin.instances)]
    /\ UNCHANGED <<pin, storeVars>>

ApplyUpsertInstancesChunks ==
    /\ pout = NotRun
    /\ pin.fn = "upsert_instances"
    /\ pout' = [fn |-> pin.fn, r |-> bound_chunks(Self, pin.schema, pin.instances)]
    /\ UNCHANGED <<pin, storeVars>>

ChunkNext ==
    \/ ApplyCreateInstancesChunks
    \/ ApplyUpsertInstancesChunks

SpecChunks == ChunkInit /\ [][ChunkNext]_vars

Chunked == pout.fn \in {"create_instances", "upsert_instances"}

\* The number of parameters the statement of a chunk binds
BoundParams(chunk) == Len(Concat(chunk))

\* Each chunk holds at least one row, and the chunks one after the other are
\* the validated rows in input order.
ChunksPartitionRows ==
    /\ \A k \in DOMAIN pout.r : pout.r[k] # <<>>
    /\ Concat(pout.r) = ParamsOf(bulk_rows(Self, pin.schema, pin.instances))

\* C14 as stated: for every schema width and every auto-id setting, each
\* chunk's statement binds at most the parameter budget (32000), each chunk
\* contains at least one row, and the chunks partition the validated input rows
\* in input order.
C14_ChunksWithinBudget ==
    Chunked =>
        /\ \A k \in DOMAIN pout.r : BoundParams(pout.r[k]) <= ParamLimit
        /\ ChunksPartitionRows

\* C14, amended: for every auto-id setting and every schema width each chunk
\* contains at least one row and the chunks partition the validated input rows
\* in input order. For a schema with fewer columns than the parameter budget
\* each chunk's statement binds at most the budget; for a wider schema each
\* chunk holds exactly one row and binds one parameter per column, plus one for
\* the id when the auto id is enabled.
C14_ChunksPartitionWithinBudget ==
    Chunked =>
        LET width == Len(pin.schema.columns)
            per_row == width + (IF config.auto_columns.id THEN 1 ELSE 0)
        IN  /\ ChunksPartitionRows
            /\ \A k \in DOMAIN pout.r : BoundParams(pout.r[k]) = Len(pout.r[k]) * per_row
            /\ width < ParamLimit =>
                   \A k \in DOMAIN pout.r : BoundParams(pout.r[k]) <= ParamLimit
            /\ width >= ParamLimit => \A k \in DOMAIN pout.r : Len(pout.r[k]) = 1

\* A call split into full chunks of several rows and a shorter last chunk.
C14_Witness ==
    /\ Chunked
    /\ Len(pout.r) >= 3
    /\ Len(pout.r[1]) >= 2
    /\ Len(pout.r[Len(pout.r)]) < Len(pout.r[1])
    /\ config.auto_columns.id

\* ------------------------------------------------------------------------
\* The condition and order-by compilers applied to every operator, argument
\* kind and field name
\* ------------------------------------------------------------------------

F_empty == <<>>

F_accent == <<"é">>

F_space == <<"a"," ","b">>

F_quote == <<"a",DQ>>

F_mixed == <<"A","_","1">>

FieldNames == {F_a, F_hyphen, F_mixed, F_semicolon, F_empty, F_accent, F_space, F_quote}

\* First arguments: field names, and values that are no field name
FirstArguments ==
    { JStr(f) : f \in FieldNames } \cup { JInt(1), JNull, JArr(<<JStr(F_a)>>) }

NullabilityOps == {OP_IS_EMPTY, OP_IS_NOT_EMPTY, OP_IS_DEFINED}

FieldOps == ComparisonOps \cup {OP_CONTAINS, OP_IN, OP_NOT_IN} \cup NullabilityOps

OP_STARTS_WITH == <<"S","T","A","R","T","S","_","W","I","T","H">>

OP_ENDS_WITH == <<"E","N","D","S","_","W","I","T","H">>

OP_STARTSWITH == <<"S","t","a","r","t","s","W","i","t","h">>

OP_ENDSWITH == <<"E","n","d","s","W","i","t","h">>

PrefixSuffixOps == {OP_STARTS_WITH, OP_ENDS_WITH, OP_STARTSWITH, OP_ENDSWITH}

FieldConditions ==
    { Condition(op, <<first, v>>) :
        op \in ComparisonOps, first \in FirstArguments, v \in {V_x, JNull} }
    \cup { Condition(OP_CONTAINS, <<first, V_x>>) : first \in FirstArguments }
    \cup { Condition(op, <<first, V_arr>>) : op \in {OP_IN, OP_NOT_IN}, first \in FirstArguments }
    \cup { Condition(op, <<first>>) : op \in NullabilityOps, first \in FirstArguments }
    \cup { Condition(op, <<JStr(F_a), v>>) : op \in PrefixSuffixOps, v \in {V_x, JInt(1)} }

F_status == <<"s","t","a","t","u","s">>

F_price == <<"p","r","i","c","e">>

F_featured == <<"f","e","a","t","u","r","e","d">>

V_active == JStr(<<"a","c","t","i","v","e">>)

\* And([Eq(status, "active"), Or([Gt(price, 100), Eq(featured, true)])])
NestedExample ==
    Condition(OP_AND,
        <<condition_to_value(Condition(OP_EQ, <<JStr(F_status), V_active>>)),
          condition_to_value(Condition(OP_OR,
              <<condition_to_value(Condition(OP_GT, <<JStr(F_price), JInt(100)>>)),
                condition_to_value(Condition(OP_EQ, <<JStr(F_featured), JBool(TRUE)>>))>>))>>)

CompileConditions == FieldConditions \cup LogicalOver(SmallArguments) \cup {NestedExample}

CompileCalls ==
    { [fn |-> "build_condition_clause", condition |-> c, param_offset |-> k] :
          c \in CompileConditions, k \in 1..MaxOffset }

MaxSortFields == 2

MaxSortOrders == 2

N_K == <<"K">>

N_zz == <<"z","z">>

\* Sort fields: system fields in both spellings, schema columns, a column name
\* in another case, and a name that is no column
SortFields == {N_id, N_createdAt, N_updated_at, N_k, N_K, N_zz}

S_asc == <<"a","s","c">>

S_Desc == <<"D","e","s","c">>

S_up == <<"u","p">>

SortOrders == {S_asc, S_DESC, S_Desc, S_up}

\* The schema build_order_by_clause validates the sort fields against
OrderBySchema == [name |-> S1, table_name |-> T1, columns |-> <<Col_k, Col_n>>]

OrderByCalls ==
    { [fn |-> "build_order_by_clause", sort_by |-> sb, sort_order |-> so,
       schema |-> OrderBySchema] :
          sb \in {<<>>} \cup { <<fs>> : fs \in SeqsUpTo(SortFields, MaxSortFields) },
          so \in {<<>>} \cup { <<os>> : os \in SeqsUpTo(SortOrders, MaxSortOrders) } }

ApplyBuildOrderByClause ==
    /\ pout = NotRun
    /\ pin.fn = "build_order_by_clause"
    /\ pout' = [fn |-> pin.fn,
                r |-> build_order_by_clause(pin.sort_by, pin.sort_order, pin.schema)]
    /\ UNCHANGED <<pin, storeVars>>

CompileInit ==
    /\ StoreInit(DefaultConfig)
    /\ pin \in CompileCalls \cup OrderByCalls
    /\ pout = NotRun

CompileNext ==
    \/ ApplyBuildConditionClause
    \/ ApplyBuildOrderByClause

SpecCompile == CompileInit /\ [][CompileNext]_vars

\* The condition gives some operator an argument of the wrong kind: a logical
\* operator an argument that is no condition, or an operator on a field a first
\* argument that is no string.
RECURSIVE WrongArgumentKind(_)
WrongArgumentKind(condition) ==
    LET op == to_uppercase(condition.op)
        args == condition.arguments
    IN  /\ condition.has_arguments
        /\ \/ /\ op \in {OP_AND, OP_OR, OP_NOT}
              /\ \E i \in DOMAIN args :
                     \/ ~from_value_ok(args[i])
                     \/ from_value_ok(args[i]) /\ WrongArgumentKind(from_value(args[i]))
           \/ /\ op \in FieldOps
              /\ args # <<>>
              /\ args[1].t # "str"

\* C15: build_condition_clause returns an error and no fragment whenever an
\* operator receives an argument of the wrong kind: an AND/OR/NOT argument that
\* is not a nested condition, or a comparison/string/array/nullability operator
\* whose first argument is not a field name; no such argument is silently
\* dropped from the result.
C15_WrongArgumentKindIsError ==
    (pout.fn = "build_condition_clause" /\ WrongArgumentKind(pin.condition)) =>
        /\ ~pout.r.ok
        /\ pout.r.clause = <<>>
        /\ pout.r.params = <<>>

\* ^[A-Za-z0-9_-]+$
AsciiFieldName(field) ==
    /\ field # <<>>
    /\ \A i \in DOMAIN field :
           IsLower(field[i]) \/ IsUpper(field[i]) \/ IsDigit(field[i]) \/ field[i] \in {"_", "-"}

\* The condition applies an operator that takes a field to a string.
TakesField(condition) ==
    /\ condition.has_arguments
    /\ to_uppercase(condition.op) \in FieldOps
    /\ condition.arguments # <<>>
    /\ condition.arguments[1].t = "str"

\* C16: every field name that build_condition_clause embeds in a returned
\* fragment is non-empty and consists only of ASCII letters, digits, '_' and
\* '-'; any other field name, the empty string and names with non-ASCII
\* letters, spaces, quotes or semicolons included, yields an error for every
\* operator that takes a field.
C16_FieldNamesValidated ==
    pout.fn = "build_condition_clause" =>
        /\ pout.r.ok =>
               \A i \in DOMAIN pout.r.clause :
                   pout.r.clause[i].k = "ident" => AsciiFieldName(pout.r.clause[i].src)
        /\ (TakesField(pin.condition) /\ ~AsciiFieldName(pin.condition.arguments[1].c)) =>
               ~pout.r.ok

\* "<field>"::text <operator> $n::text, in the pieces of the format string
ComparisonText(field, operator, n) ==
    <<TIdent(<<DQ>> \o field \o <<DQ>>, field), T("::text "), T(operator), T(" "),
      TPh(n), T("::text")>>

ExampleParams ==
    <<V_active, JStr(<<"1","0","0">>), JStr(<<"t","r","u","e">>)>>

\* (("status"::text = $1::text)) AND
\* (("price"::text > $2::text) OR ("featured"::text = $3::text))
StatedFragment ==
    <<T("("), T("(")>> \o ComparisonText(F_status, "=", 1) \o <<T(")"), T(")")>>
    \o <<T(" AND ")>>
    \o <<T("("), T("(")>> \o ComparisonText(F_price, ">", 2) \o <<T(")")>>
    \o <<T(" OR ")>>
    \o <<T("(")>> \o ComparisonText(F_featured, "=", 3) \o <<T(")"), T(")")>>

\* ("status"::text = $1::text) AND
\* (("price"::text > $2::text) OR ("featured"::text = $3::text))
RecursionFragment ==
    <<T("(")>> \o ComparisonText(F_status, "=", 1) \o <<T(")")>>
    \o <<T(" AND ")>>
    \o <<T("("), T("(")>> \o ComparisonText(F_price, ">", 2) \o <<T(")")>>
    \o <<T(" OR ")>>
    \o <<T("(")>> \o ComparisonText(F_featured, "=", 3) \o <<T(")"), T(")")>>

ExampleCompiled ==
    /\ pout.fn = "build_condition_clause"
    /\ pin.condition = NestedExample
    /\ pin.param_offset = 1

\* C17 as stated: compiling And([Eq(status, "active"), Or([Gt(price, 100),
\* Eq(featured, true)])]) from offset 1 yields exactly the fragment
\* (("status"::text = $1::text)) AND (("price"::text > $2::text) OR
\* ("featured"::text = $3::text)), params ["active", "100", "true"] and final
\* offset 4.
C17_NestedExampleAsStated ==
    ExampleCompiled => pout.r = CcOk(StatedFragment, ExampleParams, 4)

\* C17, amended: the same call yields exactly the fragment
\* ("status"::text = $1::text) AND (("price"::text > $2::text) OR
\* ("featured"::text = $3::text)), each argument of AND and OR wrapped in one
\* pair of parentheses, params ["active", "100", "true"] (every non-null
\* comparison value bound as its text form) and final offset 4.
C17_NestedExample ==
    ExampleCompiled => pout.r = CcOk(RecursionFragment, ExampleParams, 4)

C17_Witness == ExampleCompiled /\ pout.r.ok /\ Len(pout.r.params) = 3

\* A compiled comparison of a valid field name against JSON null
NullComparison ==
    /\ pout.fn = "build_condition_clause"
    /\ to_uppercase(pin.condition.op) \in ComparisonOps
    /\ pin.condition.has_arguments
    /\ Len(pin.condition.arguments) = 2
    /\ pin.condition.arguments[1].t = "str"
    /\ field_name_ok(pin.condition.arguments[1].c)
    /\ pin.condition.arguments[2] = JNull

NullClause(field, text) == <<TIdent(<<DQ>> \o field \o <<DQ>>, field), T(" "), T(text)>>

\* C18: for a comparison against JSON null, build_condition_clause returns
\* "<field>" IS NULL for EQ and "<field>" IS NOT NULL for NE, with an empty
\* parameter list and the offset unchanged, and returns an error for GT, LT,
\* GTE and LTE.
C18_NullComparison ==
    NullComparison =>
        LET op    == to_uppercase(pin.condition.op)
            field == pin.condition.arguments[1].c
        IN  /\ op = OP_EQ =>
                pout.r = CcOk(NullClause(field, "IS NULL"), <<>>, pin.param_offset)
            /\ op = OP_NE =>
                pout.r = CcOk(NullClause(field, "IS NOT NULL"), <<>>, pin.param_offset)
            /\ op \in {OP_GT, OP_LT, OP_GTE, OP_LTE} => ~pout.r.ok

C18_Witness ==
    /\ NullComparison
    /\ to_uppercase(pin.condition.op) = OP_GTE
    /\ ~pout.r.ok
    /\ pin.param_offset > 1

\* The spellings of the prefix operator and of the suffix operator, upper-cased
\* as the compiler upper-cases every operator
PrefixOps == {to_uppercase(OP_STARTS_WITH), to_uppercase(OP_STARTSWITH)}

SuffixOps == {to_uppercase(OP_ENDS_WITH), to_uppercase(OP_ENDSWITH)}

\* A compiled StartsWith / EndsWith / Contains of (field, string)
StringMatch(ops) ==
    /\ pout.fn = "build_condition_clause"
    /\ to_uppercase(pin.condition.op) \in ops
    /\ pin.condition.has_arguments
    /\ Len(pin.condition.arguments) = 2
    /\ pin.condition.arguments[1].t = "str"
    /\ field_name_ok(pin.condition.arguments[1].c)
    /\ pin.condition.arguments[2].t = "str"

\* <quoted field>::text LIKE $n::text with the one bound pattern
LikeResult(pattern) ==
    LET field == pin.condition.arguments[1].c
    IN  CcOk(<<TIdent(<<DQ>> \o field \o <<DQ>>, field), T("::text LIKE "),
               TPh(pin.param_offset), T("::text")>>,
             <<JStr(pattern)>>, pin.param_offset + 1)

\* C19: StartsWith and EndsWith with two arguments (field, string) compile to
\* <quoted field>::text LIKE $n::text and bind value% for StartsWith and %value
\* for EndsWith, consuming one placeholder, exactly as Contains binds %value%.
C19_PrefixSuffixSupported ==
    LET value == pin.condition.arguments[2].c
    IN  /\ StringMatch(PrefixOps) => pout.r = LikeResult(value \o <<"%">>)
        /\ StringMatch(SuffixOps) => pout.r = LikeResult(<<"%">> \o value)
        /\ StringMatch({OP_CONTAINS}) => pout.r = LikeResult(<<"%">> \o value \o <<"%">>)

\* The part of C19 that is about Contains
ContainsBindsInfix ==
    StringMatch({OP_CONTAINS}) =>
        pout.r = LikeResult(<<"%">> \o pin.condition.arguments[2].c \o <<"%">>)

\* What the compiler answers to StartsWith and EndsWith
PrefixSuffixUnsupported ==
    StringMatch(PrefixOps \cup SuffixOps) =>
        pout.r = CcErr("Unsupported operation", pin.param_offset)

PrefixSuffixCompiled == StringMatch(PrefixOps \cup SuffixOps)

OrderByRun == pout.fn = "build_order_by_clause"

SortByAbsent == pin.sort_by = <<>> \/ pin.sort_by[1] = <<>>

\* The field is neither a system field nor the exact name of a schema column
InvalidSortField(field) ==
    /\ field \notin {N_id, N_createdAt, N_updatedAt, N_created_at, N_updated_at}
    /\ \A i \in DOMAIN pin.schema.columns : pin.schema.columns[i].name # field

\* asc or desc, case-insensitively
IsAscDesc(order) == to_lowercase(order) \in {to_lowercase(S_ASC), to_lowercase(S_DESC)}

SuppliedOrders == IF pin.sort_order = <<>> THEN <<>> ELSE pin.sort_order[1]

NormalizedSortField(field) ==
    CASE field = N_createdAt -> N_created_at
      [] field = N_updatedAt -> N_updated_at
      [] OTHER -> field

\* The text emitted for position i: the quoted normalized field and the order in
\* upper case, ASC where the position has no order entry
SortPart(i) ==
    LET field == NormalizedSortField(pin.sort_by[1][i])
    IN  <<TIdent(quote_identifier(field), field), T(" "),
          TLit(IF i \in DOMAIN SuppliedOrders THEN to_uppercase(SuppliedOrders[i])
               ELSE S_ASC)>>

\* The default, and the text emitted on success
OrderByOutput ==
    /\ SortByAbsent => pout.r.ok /\ pout.r.clause = <<T("created_at ASC")>>
    /\ ~SortByAbsent /\ pout.r.ok =>
           pout.r.clause = Join([i \in DOMAIN pin.sort_by[1] |-> SortPart(i)], <<T(", ")>>)

\* C20 as stated: build_order_by_clause returns created_at ASC when sort_by is
\* absent or empty; otherwise it fails iff some sort field is neither a system
\* field nor the exact name of a schema column, or some supplied order is not
\* asc/desc case-insensitively; on success it emits, in input order and joined
\* by ", ", the quoted normalized field followed by the order, ASC for every
\* position that has no order entry.
C20_OrderByAsStated ==
    OrderByRun =>
        /\ OrderByOutput
        /\ ~SortByAbsent =>
               (~pout.r.ok <=>
                   \/ \E i \in DOMAIN pin.sort_by[1] : InvalidSortField(pin.sort_by[1][i])
                   \/ \E j \in DOMAIN SuppliedOrders : ~IsAscDesc(SuppliedOrders[j]))

\* C20, amended: as stated, except that only the order entries at the positions
\* of the sort fields are checked: the call fails iff some sort field is invalid
\* or the order entry at the position of some sort field is not asc/desc
\* case-insensitively. Order entries beyond the last sort field are ignored. The
\* emitted order is the entry in upper case.
C20_OrderByClause ==
    OrderByRun =>
        /\ OrderByOutput
        /\ ~SortByAbsent =>
               (~pout.r.ok <=>
                   \/ \E i \in DOMAIN pin.sort_by[1] : InvalidSortField(pin.sort_by[1][i])
                   \/ \E i \in DOMAIN pin.sort_by[1] :
                          i \in DOMAIN SuppliedOrders /\ ~IsAscDesc(SuppliedOrders[i]))

\* Two sort fields, the first with a mixed-case order and the second with none
C20_Witness ==
    /\ OrderByRun
    /\ pout.r.ok
    /\ ~SortByAbsent
    /\ Len(pin.sort_by[1]) = 2
    /\ pin.sort_by[1][1] = N_createdAt
    /\ SuppliedOrders = <<S_Desc>>

\* A surplus order entry that is neither asc nor desc, in a call that succeeds
SurplusOrderIgnored ==
    /\ OrderByRun
    /\ pout.r.ok
    /\ ~SortByAbsent
    /\ \E j \in DOMAIN SuppliedOrders : j > Len(pin.sort_by[1]) /\ ~IsAscDesc(SuppliedOrders[j])


\* ------------------------------------------------------------------------
\* The ALTER diff, generated and applied to a table
\* ------------------------------------------------------------------------

Col_a_unique == with_unique(Col_a)

Col_a_default == with_default(Col_a, <<SQ, "x", SQ>>)

Col_e_more == ColumnDefinition_new(N_e, CT_enum(<<N_a, N_b>>))

Col_e_text == ColumnDefinition_new(N_e, CT("String"))

\* Two names' worth of columns that differ in type, nullability, default and
\* the unique flag, and an Enum column in three declarations
AlterColumns ==
    {Col_a, Col_a_int, Col_a_unique, Col_a_default, Col_b, Col_e, Col_e_more, Col_e_text}

AlterLists == {<<>>} \cup ArgLists(AlterColumns)

AlterCalls ==
    { [fn |-> "generate_alter_table", table_name |-> T1, old_columns |-> o, new_columns |-> n] :
          o \in AlterLists, n \in AlterLists }

\* The table CREATE TABLE makes of the old columns, where PostgreSQL accepts it
AlterInit ==
    /\ config = DefaultConfig
    /\ meta = {}
    /\ clock = 1
    /\ res = NoResult
    /\ calls = NoCalls
    /\ pin \in AlterCalls
    /\ pout = NotRun
    /\ tables = LET defs == create_table_column_defs(DefaultConfig, pin.old_columns)
                IN  IF pg_create_table_ok(NoMembers, pin.table_name, defs)
                    THEN pg_create_table(NoMembers, pin.table_name, defs)
                    ELSE NoMembers

\* for statement in alter_statements { execute(statement)? }
ExecuteAlterStatements ==
    /\ pout.fn = "generate_alter_table"
    /\ res = NoResult
    /\ pin.table_name \in DOMAIN tables
    /\ \E done \in {run_alter_statements(tables, pin.table_name, pout.r, 1, clock)} :
          /\ tables' = done.tables
          /\ res' = [op |-> "alter_statements", args |-> pin,
                     err |-> IF done.ok THEN "ok" ELSE "Sql", val |-> <<>>]
    /\ UNCHANGED <<config, meta, clock, calls, pin, pout>>

AlterNext ==
    \/ ApplyGenerateAlterTable
    \/ ExecuteAlterStatements

SpecAlter == AlterInit /\ [][AlterNext]_vars


\* ------------------------------------------------------------------------
\* Properties of the ALTER diff
\* ------------------------------------------------------------------------

AlterGenerated == pout.fn = "generate_alter_table"

NamedIn(columns, name) == \E i \in DOMAIN columns : columns[i].name = name

FirstNamed(columns, name) ==
    columns[CHOOSE i \in DOMAIN columns :
                /\ columns[i].name = name
                /\ \A j \in 1..(i - 1) : columns[j].name # name]

\* What a statement does, read off its text: the words after the table name,
\* the column it names, and the words after the column
StatementShape(stmt) ==
    IF stmt.text[3] = T(" ALTER COLUMN ")
    THEN <<stmt.text[6].s, stmt.text[4].src>>
    ELSE <<stmt.text[3].s, stmt.text[4].src>>

Shape(words, name) == <<words, name>>

ExpectedAdded(old, new) ==
    LET added == SelectSeq(new, LAMBDA c : ~NamedIn(old, c.name))
    IN  [i \in DOMAIN added |-> Shape(" ADD COLUMN ", added[i].name)]

ExpectedDropped(old, new) ==
    LET dropped == SelectSeq(old, LAMBDA c : ~NamedIn(new, c.name))
    IN  [i \in DOMAIN dropped |-> Shape(" DROP COLUMN ", dropped[i].name)]

DefaultOf(col) == IF col.has_default THEN <<col.default_value>> ELSE <<>>

ExpectedChanges(o, n) ==
    (IF o.column_type # n.column_type THEN <<Shape("TYPE ", n.name)>> ELSE <<>>)
    \o (IF o.nullable # n.nullable
        THEN <<Shape(IF n.nullable THEN "DROP NOT NULL" ELSE "SET NOT NULL", n.name)>>
        ELSE <<>>)
    \o (IF DefaultOf(o) # DefaultOf(n)
        THEN <<Shape(IF n.has_default THEN "SET DEFAULT " ELSE "DROP DEFAULT", n.name)>>
        ELSE <<>>)

ExpectedModified(old, new) ==
    Concat([i \in DOMAIN new |->
               IF NamedIn(old, new[i].name)
               THEN ExpectedChanges(FirstNamed(old, new[i].name), new[i])
               ELSE <<>>])

\* The lists differ in nothing but unique flags
OnlyUniqueDiffers(old, new) ==
    /\ Len(old) = Len(new)
    /\ \A i \in DOMAIN old : [old[i] EXCEPT !.unique = new[i].unique] = new[i]
    /\ \A i, j \in DOMAIN old : i # j => old[i].name # old[j].name

\* C21: generate_alter_table(old, new) returns its statements in this order:
\* one ADD COLUMN per column of new whose name is not in old (in new order),
\* then one DROP COLUMN per column of old whose name is not in new (in old
\* order), then, for each column of new whose name is in old, in new order, a
\* TYPE statement if the type differs, then SET/DROP NOT NULL if nullable
\* differs, then SET/DROP DEFAULT if the default differs; a change of only the
\* unique flag produces no statement.
C21_AlterStatementOrder ==
    AlterGenerated =>
        /\ [i \in DOMAIN pout.r |-> StatementShape(pout.r[i])]
               = ExpectedAdded(pin.old_columns, pin.new_columns)
                 \o ExpectedDropped(pin.old_columns, pin.new_columns)
                 \o ExpectedModified(pin.old_columns, pin.new_columns)
        /\ OnlyUniqueDiffers(pin.old_columns, pin.new_columns) => pout.r = <<>>

\* An added column, a dropped one, and one whose type, nullability and default
\* all change
C21_Witness ==
    /\ AlterGenerated
    /\ pin.old_columns = <<Col_a_default, Col_e>>
    /\ pin.new_columns = <<Col_b, Col_a_int>>
    /\ Len(pout.r) = 5

\* A change of the unique flag alone
UniqueFlagOnly ==
    /\ AlterGenerated
    /\ pin.old_columns = <<Col_a>>
    /\ pin.new_columns = <<Col_a_unique>>
    /\ pout.r = <<>>


AlterExecuted == res.op = "alter_statements"

\* Name, type, nullability and default of a declared or physical column
ColumnFacts(col) ==
    [name |-> col.name, column_type |-> col.column_type, nullable |-> col.nullable,
     default_value |-> DefaultOf(col)]

UserColumnFacts(table) ==
    { ColumnFacts(table.columns[i]) : i \in { j \in DOMAIN table.columns : ~table.columns[j].auto } }

DeclaredFacts(columns) == { ColumnFacts(columns[i]) : i \in DOMAIN columns }

\* C22: for every pair of column lists old and new, applying the statements of
\* generate_alter_table(old, new) in returned order to a table whose user
\* columns are old yields a table whose user columns have exactly the names,
\* types, nullability and defaults of new.
C22_AlterReachesNew ==
    AlterExecuted =>
        UserColumnFacts(tables[pin.table_name]) = DeclaredFacts(pin.new_columns)

DistinctNames(columns) ==
    \A i, j \in DOMAIN columns : i # j => columns[i].name # columns[j].name

HasEnum(columns) == \E i \in DOMAIN columns : columns[i].column_type.kind = "Enum"

\* Where no column is named twice and the old list has no Enum column, the
\* statements that PostgreSQL accepted all the way through do reach new
AcceptedAlterReachesNew ==
    /\ AlterExecuted
    /\ res.err = "ok"
    /\ DistinctNames(pin.new_columns)
    /\ ~HasEnum(pin.old_columns)
    =>
        UserColumnFacts(tables[pin.table_name]) = DeclaredFacts(pin.new_columns)

\* A type change between two valid lists of distinct names that PostgreSQL refuses
TypeChangeRefused ==
    /\ AlterExecuted
    /\ pin.old_columns = <<Col_a>>
    /\ pin.new_columns = <<Col_a_int>>
    /\ res.err = "Sql"
    /\ UserColumnFacts(tables[pin.table_name]) = DeclaredFacts(pin.old_columns)


DiffOfSameList == AlterGenerated /\ pin.old_columns = pin.new_columns

\* C23 as stated: for every column list new, generate_alter_table(new, new)
\* returns an empty statement list, so re-running the diff after it has been
\* applied emits nothing.
C23_SameListEmptyDiffAsStated == DiffOfSameList => pout.r = <<>>

\* Columns of one name are declared with one type, nullability and default
NamesDeclaredOnce(columns) ==
    \A i, j \in DOMAIN columns :
        columns[i].name = columns[j].name => ColumnFacts(columns[i]) = ColumnFacts(columns[j])

\* C23, amended: for every column list new in which no name is declared twice
\* with a different type, nullability or default (in particular every list of
\* distinct names), generate_alter_table(new, new) returns an empty statement
\* list. For a list that declares a name twice differently it returns the
\* statements that turn the first declaration into each later one.
C23_SameListEmptyDiff ==
    DiffOfSameList =>
        /\ NamesDeclaredOnce(pin.new_columns) => pout.r = <<>>
        /\ ~NamesDeclaredOnce(pin.new_columns) => pout.r # <<>>

C23_Witness ==
    /\ DiffOfSameList
    /\ pin.new_columns = <<Col_a_default, Col_e>>
    /\ pout.r = <<>>

\* A list that declares a twice, and its diff against itself
RepeatedNameDiff ==
    /\ DiffOfSameList
    /\ pin.new_columns = <<Col_a, Col_a_int>>
    /\ Len(pout.r) = 2


\* ------------------------------------------------------------------------
\* delete_schema, statement by statement, with readers of the catalog
\* ------------------------------------------------------------------------

\* The stores delete_schema is called on: empty, one schema, two schemas, and
\* two schemas of which the first is already deleted
StoreWith(cfg, requests) ==
    LET empty == ObjectStore(cfg, {}, NoMembers, 1)
        one   == create_schema(empty, requests[1]).self
        two   == create_schema(one, requests[2]).self
    IN  {empty, one, two, delete_schema(two, requests[1].name).self}

DeleteStores(cfg) ==
    StoreWith(cfg, <<CreateSchemaRequest(S1, T1, <<Col_a, Col_n>>, <<>>),
                     CreateSchemaRequest(S2, T2, <<Col_a, Col_e>>, <<<<Ix_a>>>>)>>)

DeleteCall(pc, name, err, schema) == [pc |-> pc, name |-> name, err |-> err, schema |-> schema]

\* pin keeps the store as it was when delete_schema was called
DeleteInit ==
    /\ config \in Configs
    /\ \E store \in DeleteStores(config) :
          /\ meta = store.meta
          /\ tables = store.tables
          /\ clock = store.clock
          /\ pin = [fn |-> "delete_schema", meta |-> store.meta, tables |-> store.tables]
    /\ res = NoResult
    /\ pout = NotRun
    /\ calls \in { <<DeleteCall("get_schema", name, "running", <<>>)>> : name \in SchemaNames }

\* let schema = self.get_schema(name).await?.ok_or_else(schema_not_found)?
DeleteGetSchema ==
    /\ calls[1].pc = "get_schema"
    /\ \E found \in {get_schema(Self, calls[1].name)} :
          calls' = IF found = <<>>
                   THEN <<[calls[1] EXCEPT !.pc = "done", !.err = "SchemaNotFound"]>>
                   ELSE <<[calls[1] EXCEPT !.schema = found,
                              !.pc = IF config.soft_delete THEN "update" ELSE "drop_table"]>>
    /\ UNCHANGED <<config, meta, tables, clock, res, pin, pout>>

\* UPDATE metadata SET deleted = TRUE, updated_at = NOW()
\* WHERE name = $1 AND deleted = FALSE
DeleteSoftUpdate ==
    /\ calls[1].pc = "update"
    /\ meta' = { IF m.name = calls[1].name /\ ~m.deleted
                 THEN [m EXCEPT !.deleted = TRUE, !.updated_at = clock] ELSE m : m \in meta }
    /\ clock' = clock + 1
    /\ calls' = <<[calls[1] EXCEPT !.pc = "done", !.err = "ok"]>>
    /\ UNCHANGED <<config, tables, res, pin, pout>>

\* DROP TABLE IF EXISTS table_name CASCADE
DeleteDropTable ==
    /\ calls[1].pc = "drop_table"
    /\ tables' = pg_drop_table(tables, calls[1].schema[1].table_name)
    /\ calls' = <<[calls[1] EXCEPT !.pc = "delete"]>>
    /\ UNCHANGED <<config, meta, clock, res, pin, pout>>

\* DELETE FROM metadata WHERE name = $1
DeleteMetadataRow ==
    /\ calls[1].pc = "delete"
    /\ meta' = { m \in meta : m.name # calls[1].name }
    /\ calls' = <<[calls[1] EXCEPT !.pc = "done", !.err = "ok"]>>
    /\ UNCHANGED <<config, tables, clock, res, pin, pout>>

SchemaIds == { m.id : m \in pin.meta }

GetSchemaById ==
    \E id \in SchemaIds :
        Returns(MaxSchemaClock, "get_schema_by_id", [id |-> id],
                Ret(Self, "ok", get_schema_by_id(Self, id)))

DeleteNext ==
    \/ DeleteGetSchema
    \/ DeleteSoftUpdate
    \/ DeleteDropTable
    \/ DeleteMetadataRow
    \/ GetSchema
    \/ GetSchemaById
    \/ ListSchemas

SpecDelete == DeleteInit /\ [][DeleteNext]_vars


DeleteReturned(err) == calls[1].pc = "done" /\ calls[1].err = err

\* The row the call found, as it was before the call
DeletedRowBefore == CHOOSE m \in pin.meta : m.id = calls[1].schema[1].id

Listed(self) == UNION { Range(listing) : listing \in list_schemas(self) }

\* No read of the catalog returns the schema
NoLongerReturned ==
    /\ get_schema(Self, calls[1].name) = <<>>
    /\ get_schema_by_id(Self, calls[1].schema[1].id) = <<>>
    /\ \A schema \in Listed(Self) :
          schema.name # calls[1].name /\ schema.id # calls[1].schema[1].id

\* C24: after delete_schema(name) returns success, in both soft-delete and
\* hard-delete mode the schema is no longer returned by get_schema,
\* get_schema_by_id or list_schemas; in hard mode the data table is dropped
\* before the metadata row is deleted and the row is gone, in soft mode the row
\* is only flagged deleted; delete_schema of a name with no visible schema
\* returns SchemaNotFound and changes nothing.
C24_DeleteSchema ==
    /\ DeleteReturned("ok") => NoLongerReturned
    /\ ~config.soft_delete /\ calls[1].pc = "delete" =>
           /\ calls[1].schema[1].table_name \notin DOMAIN tables
           /\ meta = pin.meta
    /\ ~config.soft_delete /\ DeleteReturned("ok") =>
           /\ calls[1].schema[1].table_name \notin DOMAIN tables
           /\ meta = pin.meta \ {DeletedRowBefore}
    /\ ~config.soft_delete /\ calls[1].pc = "drop_table" => meta = pin.meta
    /\ config.soft_delete /\ DeleteReturned("ok") =>
           /\ tables = pin.tables
           /\ \E stamp \in 1..clock :
                 meta = (pin.meta \ {DeletedRowBefore})
                        \cup {[DeletedRowBefore EXCEPT !.deleted = TRUE, !.updated_at = stamp]}
    /\ DeleteReturned("SchemaNotFound") <=>
           (calls[1].pc = "done" /\ get_schema(ObjectStore(config, pin.meta, pin.tables, 1),
                                                calls[1].name) = <<>>)
    /\ DeleteReturned("SchemaNotFound") => meta = pin.meta /\ tables = pin.tables

\* A hard delete between its two statements: the table is gone, the row is not
C24_Witness ==
    /\ ~config.soft_delete
    /\ calls[1].pc = "delete"
    /\ DeletedRowBefore \in meta
    /\ DeletedRowBefore.table_name \in DOMAIN pin.tables

SoftDeleted ==
    /\ config.soft_delete
    /\ DeleteReturned("ok")
    /\ res.op = "get_schema"
    /\ res.args.name = calls[1].name
    /\ res.val = <<>>

NotFoundOfDeletedName ==
    /\ DeleteReturned("SchemaNotFound")
    /\ \E m \in pin.meta : m.name = calls[1].name


\* ------------------------------------------------------------------------
\* Pagination: filter_instances and query_instances over a table that is
\* written between the reads, never during one
\* ------------------------------------------------------------------------

MaxPageOffset == 2

MaxPageLimit == 2

\* Soft delete, hard delete, and a store without the id column
PageConfigs ==
    { DefaultConfig, StoreConfig(FALSE, TRUE, TRUE, TRUE), StoreConfig(TRUE, FALSE, TRUE, TRUE) }

PageProperties == {P_x1, P_y2, P_n1}

C_in == Condition(OP_IN, <<JStr(N_k), JArr(<<JStr(<<"x">>), JStr(<<"y">>)>>)>>)

PageSorts ==
    { [sort_by |-> <<>>, sort_order |-> <<>>],
      [sort_by |-> <<<<N_k>>>>, sort_order |-> <<<<S_DESC>>>>],
      [sort_by |-> <<<<N_n, N_createdAt>>>>, sort_order |-> <<>>] }

PageFilterRequests ==
    { FilterRequest(offset, limit, condition, sort.sort_by, sort.sort_order) :
          offset \in 0..MaxPageOffset, limit \in 1..MaxPageLimit,
          condition \in {<<C_n1>>, <<C_in>>}, sort \in PageSorts }

PageSimpleFilters ==
    { SimpleFilter(S1, filters, limit, offset) :
          filters \in { NoMembers,
                        [x \in {N_k, N_n} |-> IF x = N_k THEN JStr(<<"x">>) ELSE JInt(1)] },
          limit \in 1..MaxPageLimit, offset \in 0..MaxPageOffset }

PageInit ==
    /\ config \in PageConfigs
    /\ meta = {}
    /\ tables = NoMembers
    /\ clock = 1
    /\ res = NoResult
    /\ calls = NoCalls
    /\ pin = NoInput
    /\ pout = NotRun

CreatePageInstance ==
    \E properties \in PageProperties :
        Returns(MaxClock, "create_instance", [schema_name |-> S1, properties |-> properties],
                create_instance(Self, S1, properties))

FilterPage ==
    \E filter \in PageFilterRequests :
        \E found \in {filter_instances(Self, S1, filter)} :
            \E answer \in Answers(found) :
                Returns(MaxClock, "filter_instances", [schema_name |-> S1, filter |-> filter],
                        Ret(Self, found.err, answer))

QueryPage ==
    \E filter \in PageSimpleFilters :
        \E keys \in KeyOrders(filter.filters) :
            \E found \in {query_instances(Self, filter, keys)} :
                \E answer \in Answers(found) :
                    Returns(MaxClock, "query_instances", [filter |-> filter, keys |-> keys],
                            Ret(Self, found.err, answer))

PageNext ==
    \/ CreateInstanceSchema
    \/ CreatePageInstance
    \/ DeleteInstance
    \/ FilterPage
    \/ QueryPage

SpecPages == PageInit /\ [][PageNext]_vars

\* The FilterRequest of the read that returned last
PageRequest ==
    IF res.op = "filter_instances" THEN res.args.filter
    ELSE to_filter_request(res.args.filter, res.args.keys)

PageRead(errs) == res.op \in {"filter_instances", "query_instances"} /\ res.err \in errs

PageSchema == get_schema(Self, S1)[1]

PageTable == tables[PageSchema.table_name]

\* The rows that are not soft-deleted and match the condition
VisibleMatching ==
    { i \in DOMAIN PageTable.rows :
        /\ config.soft_delete => PageTable.rows[i][N_deleted] = JBool(FALSE)
        /\ CondHolds(PageRequest.condition, PageTable.rows[i]) }

\* The tokens of a query between WHERE and ORDER BY (or the end)
WhereFragment(text) ==
    LET from == CHOOSE i \in DOMAIN text : text[i] = T(" WHERE ")
        to   == IF \E j \in DOMAIN text : text[j] = T(" ORDER BY ")
                THEN (CHOOSE j \in DOMAIN text : text[j] = T(" ORDER BY ")) - 1
                ELSE Len(text)
    IN  SubSeq(text, from + 1, to)

PlaceholderNumbers(tokens) ==
    LET phs == SelectSeq(tokens, LAMBDA t : t.k = "ph")
    IN  [i \in DOMAIN phs |-> phs[i].n]

\* C25: for filter_instances and query_instances without concurrent writers,
\* total_count equals the number of visible rows matching the condition and
\* does not depend on limit or offset, the returned rows are at most limit of
\* those matching rows starting at offset in the compiled order, and the COUNT
\* query and the SELECT use the same WHERE fragment with the same parameters
\* bound in the same positions, LIMIT and OFFSET taking the next two
\* placeholder numbers.
C25_CountAndPage ==
    /\ PageRead({"ok"}) =>
           LET keys  == build_order_by_clause(PageRequest.sort_by, PageRequest.sort_order,
                                              PageSchema).keys
               count == Cardinality(VisibleMatching)
               size  == Min(PageRequest.limit, Max(count - PageRequest.offset, 0))
           IN  /\ res.val.total_count = count
               /\ Len(res.val.instances) = size
               /\ \E q \in Orderings(PageTable.rows, VisibleMatching, keys) :
                     res.val.instances =
                         [i \in 1..size |->
                             row_to_instance(config, PageTable.rows[q[PageRequest.offset + i]],
                                             PageSchema)]
    /\ PageRead({"ok", "Sql"}) =>
           LET counted  == count_query(config, PageSchema, PageRequest)
               selected == select_query(config, PageSchema, PageRequest)
               n        == Len(counted.binds)
           IN  /\ WhereFragment(counted.text) = WhereFragment(selected.text)
               /\ PlaceholderNumbers(WhereFragment(counted.text)) = [i \in 1..n |-> i]
               /\ selected.binds
                      = counted.binds \o <<JInt(PageRequest.limit), JInt(PageRequest.offset)>>
               /\ SubSeq(selected.text, Len(selected.text) - 3, Len(selected.text))
                      = <<T(" LIMIT "), TPh(n + 1), T(" OFFSET "), TPh(n + 2)>>

\* The second of two matching rows out of three
C25_Witness ==
    /\ PageRead({"ok"})
    /\ res.op = "filter_instances"
    /\ PageRequest.condition = <<C_n1>>
    /\ PageRequest.offset = 1
    /\ PageRequest.limit = 1
    /\ Len(PageTable.rows) = 3
    /\ res.val.total_count = 2
    /\ Len(res.val.instances) = 1

\* A soft-deleted row that matches and is not counted
DeletedRowNotCounted ==
    /\ PageRead({"ok"})
    /\ config.soft_delete
    /\ PageRequest.condition = <<>>
    /\ Len(PageTable.rows) = 2
    /\ res.val.total_count = 1


\* ------------------------------------------------------------------------
\* Properties of the schema lookup of the instance operations
\* ------------------------------------------------------------------------

InstanceOps ==
    {"create_instance", "create_instances", "get_instance", "query_instances",
     "filter_instances", "instance_exists", "update_instance", "update_instances",
     "delete_instance", "delete_instances", "upsert_instances"}

\* The schema name a call was given
ScopedName(r) ==
    IF r.op \in {"query_instances", "instance_exists"} THEN r.args.filter.schema_name
    ELSE r.args.schema_name

\* An instance operation has returned r from a store with no visible schema of
\* the name it was given
CalledWithoutSchema(r) == r.op \in InstanceOps /\ get_schema(Self, ScopedName(r)) = <<>>

\* C26: every schema-scoped instance operation returns SchemaNotFound, and
\* touches no data table, whenever no visible schema with the given name
\* exists, for every input including an empty instance list.
C26_SchemaNotFound ==
    [][\A r \in {res'} :
          CalledWithoutSchema(r) => r.err = "SchemaNotFound" /\ tables' = tables]_vars

\* The same for the inputs that are no empty instance list and no empty
\* conflict-column list; no operation touches a table in any case
SchemaNotFoundUnlessEmpty ==
    [][\A r \in {res'} :
          CalledWithoutSchema(r) =>
              /\ tables' = tables
              /\ meta' = meta
              /\ IF r.op \in {"create_instances", "upsert_instances"} /\ r.args.instances = <<>>
                 THEN r.err = "ok" /\ r.val = <<0>>
                 ELSE IF r.op = "upsert_instances" /\ r.args.conflict_columns = <<>>
                 THEN r.err = "Validation"
                 ELSE r.err = "SchemaNotFound"]_vars


CompileFailed == pout.fn = "build_condition_clause" /\ ~pout.r.ok

\* C27: when build_condition_clause returns an error, it has no side effect
\* visible to the caller: the caller's param_offset still has the value it had
\* before the call, also when the error arises in a later argument of an AND/OR
\* after earlier arguments compiled successfully.
C27_ErrorLeavesOffset == CompileFailed => pout.r.offset = pin.param_offset

\* An error of an operator that is not AND, OR or NOT leaves the offset alone
LeafErrorLeavesOffset ==
    CompileFailed /\ to_uppercase(pin.condition.op) \notin {OP_AND, OP_OR, OP_NOT} =>
        pout.r.offset = pin.param_offset

\* An AND whose first argument compiled and whose second did not
OffsetAdvancedBeforeError ==
    /\ CompileFailed
    /\ pin.condition.op = OP_AND
    /\ Len(pin.condition.arguments) = 2
    /\ pout.r.offset = pin.param_offset + 1


\* ------------------------------------------------------------------------
\* The store as a state machine: one row, created singly or in bulk
\* ------------------------------------------------------------------------

\* A text column and a boolean column that declare a DEFAULT, and a required
\* integer column
DefaultsSchema == CreateSchemaRequest(S1, T1, <<Col_a_default, Col_b, Col_n>>, <<>>)

D_full ==
    JObj([x \in {N_a, N_b, N_n} |->
            IF x = N_a THEN JStr(<<"y">>) ELSE IF x = N_b THEN JBool(FALSE) ELSE JInt(1)])

D_no_a == Obj2(N_b, JBool(FALSE), N_n, JInt(1))

D_no_b == Obj2(N_a, JStr(<<"y">>), N_n, JInt(2))

D_only_n == Obj1(N_n, JInt(3))

D_no_n == Obj2(N_a, JStr(<<"y">>), N_b, JBool(TRUE))

DefaultsProperties == {D_full, D_no_a, D_no_b, D_only_n, D_no_n}

CreateDefaultsSchema ==
    Returns(MaxClock, "create_schema", DefaultsSchema, create_schema(Self, DefaultsSchema))

CreateOneInstance ==
    \E properties \in DefaultsProperties :
        Returns(MaxClock, "create_instance", [schema_name |-> S1, properties |-> properties],
                create_instance(Self, S1, properties))

CreateListOfOne ==
    \E properties \in DefaultsProperties :
        Returns(MaxClock, "create_instances",
                [schema_name |-> S1, instances |-> <<properties>>],
                create_instances(Self, S1, <<properties>>))

DefaultsNext ==
    \/ CreateDefaultsSchema
    \/ CreateOneInstance
    \/ CreateListOfOne

SpecDefaults == InstanceInit /\ [][DefaultsNext]_vars

\* ------------------------------------------------------------------------
\* Properties of the single and the bulk insert
\* ------------------------------------------------------------------------

DefaultsNames == {N_a, N_b, N_n}

\* The user-column values of the last row of the table
LastUserValues(tbls) ==
    LET rows == RowsOf(tbls, T1)
    IN  [n \in DefaultsNames |-> rows[Len(rows)][n]]

BulkOfOne(r) == r.op = "create_instances" /\ Len(r.args.instances) = 1

\* C28: create_instances(schema, [p]) succeeds exactly when
\* create_instance(schema, p) succeeds, and stores a row with the same
\* user-column values; a column absent from p receives its declared DEFAULT in
\* both operations.
C28_BulkOfOneAsSingle ==
    [][\A r \in {res'} :
          BulkOfOne(r) =>
              LET one == create_instance(Self, S1, r.args.instances[1])
              IN  /\ (r.err = "ok") = (one.err = "ok")
                  /\ r.err = "ok" =>
                         LastUserValues(tables') = LastUserValues(one.self.tables)]_vars

\* The two agree on the properties that leave no column out or that both refuse
BulkOfOneAsSingleWhenComplete ==
    [][\A r \in {res'} :
          BulkOfOne(r) /\ r.args.instances[1] \in {D_full, D_no_n} =>
              LET one == create_instance(Self, S1, r.args.instances[1])
              IN  /\ r.err = one.err
                  /\ r.err = "ok" =>
                         LastUserValues(tables') = LastUserValues(one.self.tables)]_vars

\* A bulk insert of one row that leaves the text column out stores NULL where
\* the single insert stores the DEFAULT
BulkStoredNullForDefault ==
    /\ BulkOfOne(res)
    /\ res.args.instances[1] = D_no_a
    /\ res.err = "ok"
    /\ is_null(LastUserValues(tables)[N_a])

\* A single insert that leaves the text column out stores the DEFAULT
SingleStoredDefault ==
    /\ res.op = "create_instance"
    /\ res.args.properties = D_no_a
    /\ res.err = "ok"
    /\ LastUserValues(tables)[N_a] = JStr(<<"x">>)

\* A bulk insert that leaves the boolean column out is refused by the database
BulkRefusedForDefault ==
    /\ BulkOfOne(res)
    /\ res.args.instances[1] = D_no_b
    /\ res.err = "Sql"


\* ------------------------------------------------------------------------
\* The store as a state machine: every configuration of the auto-managed
\* columns
\* ------------------------------------------------------------------------

AutoInit ==
    /\ config \in Configs
    /\ meta = {}
    /\ tables = NoMembers
    /\ clock = 1
    /\ res = NoResult
    /\ calls = NoCalls
    /\ pin = NoInput
    /\ pout = NotRun

AutoProperties == {P_x1, P_n1}

\* The default order, and an order by a user column
AutoFilterRequests ==
    { FilterRequest(0, 10, <<>>, <<>>, <<>>),
      FilterRequest(0, 10, <<C_n1>>, <<<<N_k>>>>, <<<<S_DESC>>>>) }

CreateAutoInstance ==
    \E properties \in AutoProperties :
        Returns(MaxClock, "create_instance", [schema_name |-> S1, properties |-> properties],
                create_instance(Self, S1, properties))

UpdateAutoInstance ==
    \E instance_id \in CallerIds :
        Returns(MaxClock, "update_instance",
                [schema_name |-> S1, instance_id |-> instance_id, properties |-> P_z],
                update_instance(Self, S1, instance_id, P_z))

FilterAuto ==
    \E filter \in AutoFilterRequests :
        \E found \in {filter_instances(Self, S1, filter)} :
            \E answer \in Answers(found) :
                Returns(MaxClock, "filter_instances", [schema_name |-> S1, filter |-> filter],
                        Ret(Self, found.err, answer))

AutoNext ==
    \/ CreateInstanceSchema
    \/ CreateAutoInstance
    \/ GetInstance
    \/ UpdateAutoInstance
    \/ DeleteInstance
    \/ FilterAuto

SpecAutoColumns == AutoInit /\ [][AutoNext]_vars

\* ------------------------------------------------------------------------
\* Properties of the auto-managed columns
\* ------------------------------------------------------------------------

AutoNames == {N_id, N_created_at, N_updated_at, N_deleted}

\* The columns of the table generate_create_table declares for the schema
EmittedNames(cfg) ==
    LET defs == create_table_column_defs(cfg, InstanceSchema.columns)
    IN  { PhysicalColumn(defs[i]).name : i \in DOMAIN defs }

\* The auto-managed columns a WHERE clause of the store names
WhereRefs(w) ==
    (IF w.id # <<>> THEN {N_id} ELSE {}) \cup (IF w.live THEN {N_deleted} ELSE {})

\* The auto-managed columns the ORDER BY of a filter names
OrderRefs(filter) ==
    LET order_by == build_order_by_clause(filter.sort_by, filter.sort_order, InstanceSchema)
    IN  { order_by.keys[i].field : i \in DOMAIN order_by.keys } \cap AutoNames

\* The auto-managed columns the statements of a call name
AutoRefs(r, cfg) ==
    CASE r.op = "create_schema" -> default_index_refs(cfg)
      [] r.op \in {"get_instance", "update_instance", "delete_instance"} ->
             WhereRefs(instance_where(cfg, r.args.instance_id))
             \cup (IF r.op = "get_instance"
                   THEN select_columns(cfg, InstanceSchema) \cap AutoNames ELSE {})
      [] r.op = "filter_instances" ->
             WhereRefs(base_where(cfg, r.args.filter.condition))
             \cup OrderRefs(r.args.filter)
             \cup (select_columns(cfg, InstanceSchema) \cap AutoNames)
      [] OTHER -> {}

\* C29: for every combination of auto_columns.id, auto_columns.created_at,
\* auto_columns.updated_at and soft_delete, every auto-managed column the SQL
\* of a call refers to (created_at in the default index and the default ORDER
\* BY, id in the WHERE of get_instance, update_instance and delete_instance,
\* deleted in the soft-delete predicates) is a column generate_create_table
\* emits under the same configuration.
C29_AutoColumnsEmitted ==
    [][\A r \in {res'} : AutoRefs(r, config) \subseteq EmittedNames(config)]_vars

\* With the id and created_at columns enabled every reference is to an emitted
\* column
AutoColumnsEmittedWithIdAndCreatedAt ==
    [][\A r \in {res'} :
          config.auto_columns.id /\ config.auto_columns.created_at =>
              AutoRefs(r, config) \subseteq EmittedNames(config)]_vars

\* A read or a delete of an existing table is refused by the database exactly
\* when it names an auto-managed column the table was created without
RefusedIffColumnMissing ==
    [][\A r \in {res'} :
          (/\ \/ r.op \in {"get_instance", "delete_instance"}
              \/ r.op = "filter_instances" /\ r.args.filter.condition = <<>>
           /\ T1 \in DOMAIN tables) =>
              ((r.err = "Sql") = ~(AutoRefs(r, config) \subseteq EmittedNames(config)))]_vars

\* create_schema fails at the default index of a table without created_at,
\* after the metadata row and the table were written
DefaultIndexRefused ==
    /\ res.op = "create_schema"
    /\ res.err = "Sql"
    /\ ~config.auto_columns.created_at
    /\ T1 \in DOMAIN tables
    /\ meta # {}

\* get_instance on a table without the id column
IdLookupRefused ==
    /\ res.op = "get_instance"
    /\ res.err = "Sql"
    /\ ~config.auto_columns.id
    /\ T1 \in DOMAIN tables


\* ------------------------------------------------------------------------
\* Concurrent update_schema calls: every statement a call awaits is one step
\* ------------------------------------------------------------------------

UpdateBase == CreateSchemaRequest(S1, T1, <<Col_a>>, <<>>)

\* A column added, another column added, the default of the column changed
UpdateColumnLists == { <<Col_a, Col_k>>, <<Col_a, Col_e_text>>, <<Col_a_default>> }

UpdateConfigs == { DefaultConfig, StoreConfig(FALSE, TRUE, TRUE, TRUE) }

UpdateCall(pc, request, existing, statements, err, i) ==
    [pc |-> pc, request |-> request, existing |-> existing, statements |-> statements,
     err |-> err, i |-> i]

\* A store that holds the schema, and two calls about to load it
UpdateInit ==
    /\ config \in UpdateConfigs
    /\ \E made \in {create_schema(ObjectStore(config, {}, NoMembers, 1), UpdateBase)} :
           /\ made.err = "ok"
           /\ meta = made.self.meta
           /\ tables = made.self.tables
           /\ clock = made.self.clock
    /\ res = NoResult
    /\ pin = NoInput
    /\ pout = NotRun
    /\ calls \in [Procs -> { UpdateCall("get_schema", UpdateSchemaRequest(<<>>, <<columns>>, <<>>),
                                       <<>>, <<>>, "running", 1) :
                             columns \in UpdateColumnLists }]

\* let existing = self.get_schema(name).await?.ok_or_else(schema_not_found)?
UpdateGetSchema(p) ==
    /\ calls[p].pc = "get_schema"
    /\ IF get_schema(Self, S1) = <<>> THEN Finish(p, "SchemaNotFound")
       ELSE calls' = [calls EXCEPT ![p].pc = "update", ![p].existing = get_schema(Self, S1)]
    /\ UNCHANGED <<config, meta, tables, clock, res, pin, pout>>

\* UPDATE metadata SET updated_at = NOW(), columns = $2 WHERE name = $1 ...
\* RETURNING ...; then generate_alter_table over existing.columns
UpdateMetadataRow(p) ==
    LET request == calls[p].request
        existing == calls[p].existing[1]
        rows == { m \in meta : m.name = S1 /\ MetadataVisible(Self, m) }
        old_row == CHOOSE m \in rows : TRUE
        new_row == [old_row EXCEPT !.updated_at = clock, !.columns = request.columns[1]]
    IN  /\ calls[p].pc = "update"
        /\ IF rows # {} /\ metadata_update_ok(meta, old_row, new_row)
           THEN /\ meta' = (meta \ {old_row}) \cup {new_row}
                /\ clock' = clock + 1
                /\ calls' = [calls EXCEPT
                               ![p].pc = "alter",
                               ![p].statements =
                                   generate_alter_table(existing.table_name, existing.columns,
                                                        request.columns[1])]
           ELSE /\ UNCHANGED <<meta, clock>>
                /\ Finish(p, "Sql")
        /\ UNCHANGED <<config, tables, res, pin, pout>>

\* for statement in alter_statements: sqlx::query(&statement).execute(..).await?
UpdateAlterTable(p) ==
    LET table_name == calls[p].existing[1].table_name
        statement == calls[p].statements[calls[p].i]
    IN  /\ calls[p].pc = "alter"
        /\ calls[p].i <= Len(calls[p].statements)
        /\ IF table_name \in DOMAIN tables /\ pg_alter_ok(tables[table_name], statement, clock)
           THEN /\ tables' = [tables EXCEPT ![table_name] = pg_alter(@, statement, clock)]
                /\ calls' = [calls EXCEPT ![p].i = @ + 1]
           ELSE /\ UNCHANGED tables
                /\ Finish(p, "Sql")
        /\ UNCHANGED <<config, meta, clock, res, pin, pout>>

\* Ok(schema)
UpdateReturn(p) ==
    /\ calls[p].pc = "alter"
    /\ calls[p].i > Len(calls[p].statements)
    /\ Finish(p, "ok")
    /\ UNCHANGED <<config, meta, tables, clock, res, pin, pout>>

UpdateNext ==
    \E p \in Procs :
        \/ UpdateGetSchema(p)
        \/ UpdateMetadataRow(p)
        \/ UpdateAlterTable(p)
        \/ UpdateReturn(p)

SpecUpdates == UpdateInit /\ [][UpdateNext]_vars

\* ------------------------------------------------------------------------
\* Properties of concurrent update_schema calls
\* ------------------------------------------------------------------------

UpdatesReturned == \A p \in Procs : calls[p].pc = "done"

CatalogColumns == (CHOOSE m \in meta : m.name = S1).columns

CatalogMatchesTable == DeclaredFacts(CatalogColumns) = UserColumnFacts(tables[T1])

\* C30: when two update_schema calls that both change the columns of the same
\* schema run concurrently, in every interleaving of their load, metadata
\* UPDATE and ALTER TABLE steps the final column list of the metadata row
\* equals the final user column set of the physical table.
C30_CatalogMatchesTable == UpdatesReturned => CatalogMatchesTable

\* A call that runs alone, start to end, leaves the catalog and the table in
\* step
AloneCatalogMatchesTable ==
    calls[1].pc = "done" /\ calls[2].pc = "get_schema" => CatalogMatchesTable

\* Both calls returned Ok and the table has a column the catalog does not list
BothOkOutOfStep ==
    /\ UpdatesReturned
    /\ \A p \in Procs : calls[p].err = "ok"
    /\ ~CatalogMatchesTable

\* An ALTER statement computed from a column list another call had replaced
StaleDiffApplied ==
    \E p \in Procs :
        /\ calls[p].pc = "alter"
        /\ calls[p].i > 1
        /\ \E q \in Procs \ {p} :
               /\ calls[q].pc \in {"alter", "done"}
               /\ calls[q].existing = calls[p].existing
               /\ calls[q].request # calls[p].request

====
